---- MODULE Spec2Model ----
(***************************************************************************)
(* three-urdf: the URDF parser (src/src/parser.ts) and the kinematic tree  *)
(* builder (src/src/builder.ts).                                           *)
(*                                                                         *)
(* Numbers.  Lengths and joint values are integers.  Angles (roll, pitch,  *)
(* yaw, and the value of a revolute or continuous joint) are counted in    *)
(* quarter turns (1 = pi/2 rad), and joint axes are axis-aligned, so every *)
(* rotation the builder computes is exact.  A three.js Quaternion is       *)
(* represented by the rotation it stands for, as a 3x3 integer matrix      *)
(* (a tuple of rows); a Vector3 is a tuple <<x, y, z>>.                    *)
(***************************************************************************)
EXTENDS Integers, Sequences, FiniteSets, TLC

VARIABLES
    doc,      \* the URDF document handed to parseURDF: its elements in document order
    parseOptions, \* ParseURDFOptions of the parseURDF call: packageMap, workingPath
    entry,    \* the entry point the model is built through: "buildRobot" or "loadRobot"
    options,  \* BuildRobotOptions of the build call
    model,    \* the RobotModel returned by parseURDF
    phase,    \* position of the pipeline: "input", "parsed" or "failed", "building", "built" or
              \* "overflow", and for loadRobot "loading", "loaded"
    nodes,    \* the Object3D instances created so far, by creation order
    markers,  \* the debug objects (sphere Mesh, LineSegments) created so far, each under a link group
    robot,    \* the URDFRobot: robot.links, robot.joints (name -> node), robot.rotationX
    stack,    \* the active buildLink calls: link name, its linkGroup, position of the joint loop
    error,    \* the exception the pipeline ended with, "none" if none
    loads,    \* the stlLoader.load calls loadRobot issued, in issue order, each pending, loaded or failed
    second,   \* the tree of a second build call on the same model, once that call was made
    requests, \* per node: the value setJointValue was last called with, and whether it was called again
    lastCall  \* the latest joint-value call on the tree: which names it reached, which it ignored

vars == <<doc, parseOptions, entry, options, model, phase, nodes, markers, robot, stack, error,
         loads, second, requests, lastCall>>

----------------------------------------------------------------------------
(* Bounds of the model *)

\* joint elements in a document of the topology family
MaxJoints == 2
\* joint values requested range over -MaxValue .. MaxValue
MaxValue == 2
\* buildLink nesting at which the engine raises RangeError (call stack exhausted);
\* larger than any nesting a repetition-free path of links can need
MaxCallDepth == 5
\* entries of a mapping handed to setJointValues
MaxEntries == 2
\* valid materials, links and joints (each) that precede the last element of
\* its kind in a document of the parsing family
MaxValid == 1
\* the most mesh loads loadRobot issues for a document of the loading family
MaxLoads == 4
\* roll, pitch and yaw of a document of the pose family range over 0 .. MaxTurn quarter turns
MaxTurn == 2

----------------------------------------------------------------------------
(* Vectors and rotations (three.js Vector3, Euler, Quaternion) *)

Vec(x, y, z) == <<x, y, z>>
ZeroVec == Vec(0, 0, 0)
VecAdd(a, b) == Vec(a[1] + b[1], a[2] + b[2], a[3] + b[3])
VecScale(a, s) == Vec(a[1] * s, a[2] * s, a[3] * s)

Sgn(x) == IF x > 0 THEN 1 ELSE IF x < 0 THEN -1 ELSE 0

\* Vector3.normalize() on an axis-aligned vector; the zero vector stays zero
\* (three.js divides by length() || 1)
Normalize(a) == Vec(Sgn(a[1]), Sgn(a[2]), Sgn(a[3]))

\* cosine and sine of k quarter turns
Cos4(k) == LET m == k % 4 IN IF m = 0 THEN 1 ELSE IF m = 2 THEN -1 ELSE 0
Sin4(k) == LET m == k % 4 IN IF m = 1 THEN 1 ELSE IF m = 3 THEN -1 ELSE 0

Identity3 == <<Vec(1, 0, 0), Vec(0, 1, 0), Vec(0, 0, 1)>>

Dot3(a, B, j) == a[1] * B[1][j] + a[2] * B[2][j] + a[3] * B[3][j]
RowMul(a, B) == Vec(Dot3(a, B, 1), Dot3(a, B, 2), Dot3(a, B, 3))

\* Quaternion.multiply: the composition A * B (B is applied first)
MatMul(A, B) == <<RowMul(A[1], B), RowMul(A[2], B), RowMul(A[3], B)>>

\* the vector a rotated by A (Vector3.applyQuaternion)
Dot(a, b) == a[1] * b[1] + a[2] * b[2] + a[3] * b[3]
MatVec(A, a) == Vec(Dot(A[1], a), Dot(A[2], a), Dot(A[3], a))

\* A quaternion is held as the rotation it points along (a matrix) and, where
\* it may be off unit length, twice its squared length: 2 for a unit quaternion

\* new Quaternion().setFromAxisAngle(axis, angle), (axis * sin(angle/2),
\* cos(angle/2)): the rotation by `angle` quarter turns about the unit vector
\* `axis` (Rodrigues' formula); on the zero axis the quaternion is
\* (0, 0, 0, cos(angle/2)), which turns about nothing
setFromAxisAngle(axis, angle) ==
    LET c == Cos4(angle)
        s == Sin4(angle)
        x == axis[1]
        y == axis[2]
        z == axis[3]
    IN  IF axis = ZeroVec THEN Identity3
        ELSE
        << Vec(c + (1 - c) * x * x,     (1 - c) * x * y - s * z, (1 - c) * x * z + s * y),
           Vec((1 - c) * y * x + s * z, c + (1 - c) * y * y,     (1 - c) * y * z - s * x),
           Vec((1 - c) * z * x - s * y, (1 - c) * z * y + s * x, c + (1 - c) * z * z) >>

\* twice the squared length of that quaternion, |axis|^2 * sin^2(angle/2) +
\* cos^2(angle/2) doubled: 2 on a unit axis, 1 + cos(angle) on the zero axis
axisAngleLengthSq(axis, angle) ==
    Dot(axis, axis) * (1 - Cos4(angle)) + (1 + Cos4(angle))

RotX(k) == setFromAxisAngle(Vec(1, 0, 0), k)
RotY(k) == setFromAxisAngle(Vec(0, 1, 0), k)
RotZ(k) == setFromAxisAngle(Vec(0, 0, 1), k)

\* new Euler(x, y, z, order): the angles and the order tag
Euler(x, y, z, order) == [x |-> x, y |-> y, z |-> z, order |-> order]

\* Quaternion.setFromEuler: three.js composes the elemental rotations in the
\* order the tag spells, left to right ('ZYX' is Rz * Ry * Rx)
setFromEuler(e) ==
    IF e.order = "ZYX"
    THEN MatMul(MatMul(RotZ(e.z), RotY(e.y)), RotX(e.x))
    ELSE MatMul(MatMul(RotX(e.x), RotY(e.y)), RotZ(e.z))

\* faulty variant: the angles are tagged 'XYZ', the intrinsic X-then-Y-then-Z rotation
rpyToEulerXYZ(rpy) == Euler(rpy.r, rpy.p, rpy.y, "XYZ")

\* builder.ts rpyToEuler
rpyToEuler(rpy) == Euler(rpy.r, rpy.p, rpy.y, "ZYX")

----------------------------------------------------------------------------
(* The document and the parsed model *)

\* a ParseURDFOptions object: packageMap is a function from package names to
\* prefixes (hasPackageMap tells whether the key is present), workingPath a
\* string, empty when the key is absent
ParseOptions(hasPackageMap, packageMap, workingPath) ==
    [hasPackageMap |-> hasPackageMap, packageMap |-> packageMap,
     workingPath |-> workingPath]

\* the default argument `options = {}` of parseURDF
NoParseOptions == ParseOptions(FALSE, <<>>, <<>>)

ZeroRPY == [r |-> 0, p |-> 0, y |-> 0]
ZeroPose == [xyz |-> ZeroVec, rpy |-> ZeroRPY]

\* a <limit> element: the lower and upper attributes, each present or not
\* (effort and velocity are left out, so that a <limit> with neither lower
\* nor upper is the element without attributes)
Limit(hasLower, lower, hasUpper, upper) ==
    [hasLower |-> hasLower, lower |-> lower, hasUpper |-> hasUpper, upper |-> upper]
NoLimitAttrs == Limit(FALSE, 0, FALSE, 0)

JointTypes == {"revolute", "continuous", "prismatic", "fixed", "floating", "planar"}

\* An attribute is present with a value or absent.  The value of a numeric
\* attribute (xyz, rpy, size, scale, rgba) is kept as the sequence of the
\* whitespace-separated tokens of the string, each token the number
\* parseFloat reads from it; the empty string is the empty sequence.
Attr(has, value) == [has |-> has, value |-> value]
NoAttr == Attr(FALSE, <<>>)

\* getAttribute(element, name, defaultValue): `??` replaces only an absent attribute
getAttribute(attr, defaultValue) == IF attr.has THEN attr.value ELSE defaultValue

\* attrs.name || defaultValue: `||` replaces an absent and an empty attribute
attrOr(attr, defaultValue) ==
    IF attr.has /\ attr.value # <<>> THEN attr.value ELSE defaultValue

\* str.trim().split(/\s+/).length: the empty string splits into one (empty) part
partsLength(str) == IF str = <<>> THEN 1 ELSE Len(str)

\* the first exception raised by a sequence of steps, "none" if none
FirstError(errs) ==
    IF \E i \in 1..Len(errs) : errs[i] # "none"
    THEN errs[CHOOSE i \in 1..Len(errs) :
                  errs[i] # "none" /\ \A k \in 1..(i - 1) : errs[k] = "none"]
    ELSE "none"

\* The XML parser delivers an element that has neither attributes nor
\* children as the empty string, any other element as an object.
\* getChild, lines 83-89: whether it returns an element; `child || null` is
\* null for a child that is not there and for one delivered as ''
getChild(has, filled) == has /\ filled

\* getChildren, lines 94-103: a lone child delivered as '' gives [] (line 96);
\* two or more children come as an array, returned as it is (firstFilled
\* tells whether the first child is delivered as an object)
getChildren(list, firstFilled) ==
    IF Len(list) = 1 /\ ~firstFilled THEN <<>> ELSE list

\* parseVector3, lines 38-48: the exception and the value
vector3Error(str) ==
    IF partsLength(str) # 3 THEN "Invalid vector3 format" ELSE "none"
parseVector3(str) == Vec(str[1], str[2], str[3])

\* parseRPY, lines 53-63
rpyError(str) == IF partsLength(str) # 3 THEN "Invalid RPY format" ELSE "none"
parseRPY(str) == [r |-> str[1], p |-> str[2], y |-> str[3]]

\* an <origin> element
OriginEl(xyz, rpy) == [xyz |-> xyz, rpy |-> rpy]
\* the <origin> element that spells a pose out
OriginOf(pose) ==
    OriginEl(Attr(TRUE, pose.xyz), Attr(TRUE, <<pose.rpy.r, pose.rpy.p, pose.rpy.y>>))

\* parseOrigin, lines 108-116
originError(el) ==
    FirstError(<<vector3Error(attrOr(el.xyz, <<0, 0, 0>>)),
                 rpyError(attrOr(el.rpy, <<0, 0, 0>>))>>)
parseOrigin(el) ==
    [xyz |-> parseVector3(attrOr(el.xyz, <<0, 0, 0>>)),
     rpy |-> parseRPY(attrOr(el.rpy, <<0, 0, 0>>))]

\* an <origin> element is delivered as an object when it has an attribute
originFilled(el) == el.xyz.has \/ el.rpy.has

\* `originEl ? parseOrigin(originEl) : zero pose`, originEl from getChild
optionalOriginError(hasOrigin, el) ==
    IF getChild(hasOrigin, originFilled(el)) THEN originError(el) ELSE "none"
optionalOrigin(hasOrigin, el) ==
    IF getChild(hasOrigin, originFilled(el)) THEN parseOrigin(el) ELSE ZeroPose

\* a <mimic> element: the joint attribute (a name) and the multiplier and
\* offset attributes (strings of one number, or empty)
MimicEl(joint, multiplier, offset) ==
    [joint |-> joint, multiplier |-> multiplier, offset |-> offset]
NoMimicEl == MimicEl(NoAttr, NoAttr, NoAttr)

\* <limit>, <mimic> and <joint> elements delivered as objects: those with an
\* attribute or, for <joint>, a child
limitFilled(el) == el.hasLower \/ el.hasUpper
mimicFilled(el) == el.joint.has \/ el.multiplier.has \/ el.offset.has
jointFilled(el) ==
    \/ el.hasName \/ el.hasType \/ el.hasParent \/ el.hasChild
    \/ el.hasOrigin \/ el.hasAxis \/ el.hasLimit \/ el.hasMimic

\* a <joint> element: name, type and the link attributes of <parent> and
\* <child> are strings, each present or not, as are the child elements;
\* it comes without <mimic> unless one is put in
JointEl(name, type, parent, child, origin, hasAxis, axis, hasLimit, limit) ==
    [hasName |-> TRUE, name |-> name, hasType |-> TRUE, type |-> type,
     hasParent |-> TRUE, hasParentLink |-> TRUE, parent |-> parent,
     hasChild |-> TRUE, hasChildLink |-> TRUE, child |-> child,
     hasOrigin |-> TRUE, origin |-> OriginOf(origin),
     hasAxis |-> hasAxis, axis |-> Attr(TRUE, axis),
     hasLimit |-> hasLimit, limit |-> limit,
     hasMimic |-> FALSE, mimic |-> NoMimicEl]

\* a <link> element without children
LinkEl(name) ==
    [hasName |-> TRUE, name |-> name,
     hasInertial |-> FALSE, inertial |-> [hasOrigin |-> FALSE, origin |-> OriginEl(NoAttr, NoAttr),
                                          hasMass |-> FALSE, mass |-> Attr(FALSE, 0)],
     visuals |-> <<>>, collisions |-> <<>>,
     hasSelfCollision |-> FALSE,
     selfCollision |-> [hasOrigin |-> FALSE, origin |-> OriginEl(NoAttr, NoAttr),
                        hasGeometry |-> FALSE,
                        geometry |-> [shapes |-> {}, size |-> NoAttr, radius |-> NoAttr,
                                      filename |-> NoAttr, scale |-> NoAttr]]]

\* the string value of a name-like attribute, '' when absent
nameOf(has, value) == IF has THEN value ELSE ""

\* parser.ts parseJointLimits: only the declared attributes are set
parseJointLimits(el) ==
    [hasLower |-> el.hasLower, lower |-> IF el.hasLower THEN el.lower ELSE 0,
     hasUpper |-> el.hasUpper, upper |-> IF el.hasUpper THEN el.upper ELSE 0]

\* parseJointAxis, lines 467-472
jointAxisError(attr) == vector3Error(getAttribute(attr, <<0, 0, 1>>))
parseJointAxis(attr) == parseVector3(getAttribute(attr, <<0, 0, 1>>))

\* parseJoint, lines 477-544: the exception it raises, in the order of its checks
jointError(el) ==
    FirstError(<<
        IF nameOf(el.hasName, el.name) = ""
        THEN "Joint element missing name attribute" ELSE "none",
        IF nameOf(el.hasType, el.type) = ""
        THEN "Joint element missing type attribute" ELSE "none",
        IF \/ ~getChild(el.hasParent, el.hasParentLink)
           \/ ~getChild(el.hasChild, el.hasChildLink)
        THEN "Joint missing parent or child link" ELSE "none",
        IF nameOf(el.hasParentLink, el.parent) = "" \/ nameOf(el.hasChildLink, el.child) = ""
        THEN "Joint parent or child missing link attribute" ELSE "none",
        optionalOriginError(el.hasOrigin, el.origin),
        IF getChild(el.hasAxis, el.axis.has) THEN jointAxisError(el.axis) ELSE "none" >>)

\* parseJoint, lines 531-541: the mimic relation; joint is '' when the
\* attribute is absent, multiplier and offset are undefined when theirs is
\* absent or empty
parseMimic(el) ==
    [joint |-> nameOf(el.joint.has, el.joint.value),
     hasMultiplier |-> el.multiplier.has /\ el.multiplier.value # <<>>,
     multiplier |-> IF el.multiplier.has /\ el.multiplier.value # <<>>
                    THEN el.multiplier.value[1] ELSE 0,
     hasOffset |-> el.offset.has /\ el.offset.value # <<>>,
     offset |-> IF el.offset.has /\ el.offset.value # <<>> THEN el.offset.value[1] ELSE 0]

NoMimic == [joint |-> "", hasMultiplier |-> FALSE, multiplier |-> 0,
            hasOffset |-> FALSE, offset |-> 0]

\* parser.ts parseJoint: origin defaults to the zero pose; axis, limits and
\* mimic stay undefined (has... = FALSE) when getChild finds no element
parseJoint(el) ==
    LET hasAxis == getChild(el.hasAxis, el.axis.has)
        hasLimits == getChild(el.hasLimit, limitFilled(el.limit))
        hasMimic == getChild(el.hasMimic, mimicFilled(el.mimic))
    IN  [name |-> el.name, type |-> el.type, parent |-> el.parent, child |-> el.child,
         origin |-> optionalOrigin(el.hasOrigin, el.origin),
         hasAxis |-> hasAxis,
         axis |-> IF hasAxis THEN parseJointAxis(el.axis) ELSE ZeroVec,
         hasLimits |-> hasLimits,
         limits |-> IF hasLimits THEN parseJointLimits(el.limit) ELSE NoLimitAttrs,
         hasMimic |-> hasMimic,
         mimic |-> IF hasMimic THEN parseMimic(el.mimic) ELSE NoMimic]

\* A filename, a prefix or a path is kept as the sequence of its pieces: the
\* scheme "package://" (first piece only), the separator "/", and names,
\* which hold no separator and never stand next to one another.
startsWith(str, piece) == str # <<>> /\ str[1] = piece

\* lines 203-204: filename.match(/^package:\/\/([^/]+)\/(.+)$/) on a filename
\* that starts with package://, and the two groups of the match
packageMatch(filename) ==
    Len(filename) >= 4 /\ filename[2] # "/" /\ filename[3] = "/"
packageName(filename) == filename[2]
packagePath(filename) == SubSeq(filename, 4, Len(filename))

\* The names of the functions a plain object inherits from Object.prototype
\* other than its constructor
InheritedFunctions ==
    {"toString", "valueOf", "hasOwnProperty", "isPrototypeOf",
     "propertyIsEnumerable", "toLocaleString", "__defineGetter__",
     "__defineSetter__", "__lookupGetter__", "__lookupSetter__"}

\* Properties that a plain object inherits from Object.prototype, each with
\* the string its value is written as in a template literal: a built-in
\* function by its source text, __proto__ (Object.prototype itself) as an
\* object
ObjectPrototype ==
    [name \in InheritedFunctions \cup {"constructor", "__proto__"} |->
        IF name = "constructor" THEN "function Object() { [native code] }"
        ELSE IF name = "__proto__" THEN "[object Object]"
        ELSE "function " \o name \o "() { [native code] }"]

\* line 208, options.packageMap && options.packageMap[packageName]: the
\* prefix, empty (falsy) when there is no map, or an empty entry, or neither
\* an entry nor an inherited property of that name; the property read finds
\* the map's own key first and an inherited property otherwise
packagePrefix(opts, name) ==
    IF ~opts.hasPackageMap THEN <<>>
    ELSE IF name \in DOMAIN opts.packageMap THEN opts.packageMap[name]
    ELSE IF name \in DOMAIN ObjectPrototype THEN <<ObjectPrototype[name]>>
    ELSE <<>>

\* lines 202-215: a package:// URI of a mapped package becomes prefix/path
resolvePackage(filename, opts) ==
    IF /\ startsWith(filename, "package://")
       /\ packageMatch(filename)
       /\ packagePrefix(opts, packageName(filename)) # <<>>
    THEN packagePrefix(opts, packageName(filename)) \o <<"/">> \o packagePath(filename)
    ELSE filename

\* lines 217-220: workingPath is prepended to a non-empty filename that now
\* starts neither with package:// nor with /
resolveRelative(filename, opts) ==
    IF /\ filename # <<>>
       /\ ~startsWith(filename, "package://")
       /\ ~startsWith(filename, "/")
       /\ opts.workingPath # <<>>
    THEN opts.workingPath \o <<"/">> \o filename
    ELSE filename

\* lines 199-220: the filename stored for a <mesh> element
resolveFilename(filename, opts) == resolveRelative(resolvePackage(filename, opts), opts)

\* a <geometry> element: the set of the tags of its children, the size
\* attribute of the <box>, the radius attribute of the <cylinder>, <sphere>
\* and <capsule> (their length is left out), and the filename and scale
\* attributes of the <mesh> among them
GeometryEl(shapes, size, radius, filename, scale) ==
    [shapes |-> shapes, size |-> size, radius |-> radius,
     filename |-> filename, scale |-> scale]

\* a <geometry> element is delivered as an object when it has a child
geometryFilled(el) == el.shapes # {}

\* parseGeometry, lines 168-172: the children getChild returns, those that
\* are there and have an attribute
geometryChildren(el) ==
    {tag \in el.shapes :
        getChild(TRUE, CASE tag = "box" -> el.size.has
                         [] tag \in {"cylinder", "sphere", "capsule"} -> el.radius.has
                         [] tag = "mesh" -> el.filename.has \/ el.scale.has
                         [] OTHER -> TRUE)}

\* parseGeometry, lines 167-246: the child looked at, in the order of the tests
geometryType(el) ==
    IF "box" \in geometryChildren(el) THEN "box"
    ELSE IF "cylinder" \in geometryChildren(el) THEN "cylinder"
    ELSE IF "sphere" \in geometryChildren(el) THEN "sphere"
    ELSE IF "mesh" \in geometryChildren(el) THEN "mesh"
    ELSE IF "capsule" \in geometryChildren(el) THEN "capsule"
    ELSE "none"

geometryError(el) ==
    IF geometryType(el) = "box"
    THEN vector3Error(getAttribute(el.size, <<1, 1, 1>>))
    ELSE IF geometryType(el) = "mesh"
    THEN IF getAttribute(el.scale, <<>>) # <<>>
         THEN vector3Error(getAttribute(el.scale, <<>>)) ELSE "none"
    ELSE IF geometryType(el) = "none"
    THEN "Unknown geometry type"
    ELSE "none"

parseGeometry(el, opts) ==
    LET type == geometryType(el)
        hasScale == type = "mesh" /\ getAttribute(el.scale, <<>>) # <<>>
    IN  [type |-> type,
         size |-> IF type = "box" THEN parseVector3(getAttribute(el.size, <<1, 1, 1>>))
                  ELSE ZeroVec,
         filename |-> IF type = "mesh"
                      THEN resolveFilename(getAttribute(el.filename, <<>>), opts)
                      ELSE <<>>,
         hasScale |-> hasScale,
         scale |-> IF hasScale THEN parseVector3(getAttribute(el.scale, <<>>)) ELSE ZeroVec]

\* a <visual>, <collision> or <self_collision_checking> element
ShapeEl(hasOrigin, origin, hasGeometry, geometry) ==
    [hasOrigin |-> hasOrigin, origin |-> origin,
     hasGeometry |-> hasGeometry, geometry |-> geometry]

\* such an element is delivered as an object when it has a child
shapeFilled(el) == el.hasOrigin \/ el.hasGeometry

\* the geometryEl that getChild returns to parseVisual and parseCollision
hasGeometryEl(el) == getChild(el.hasGeometry, geometryFilled(el.geometry))

\* parseVisual, lines 289-319
visualError(el) ==
    FirstError(<<IF ~hasGeometryEl(el) THEN "Visual element missing geometry" ELSE "none",
                 optionalOriginError(el.hasOrigin, el.origin),
                 IF hasGeometryEl(el) THEN geometryError(el.geometry) ELSE "none">>)
parseVisual(el, opts) ==
    [origin |-> optionalOrigin(el.hasOrigin, el.origin),
     geometry |-> parseGeometry(el.geometry, opts)]

\* parseCollision, lines 324-346
collisionError(el) ==
    FirstError(<<IF ~hasGeometryEl(el) THEN "Collision element missing geometry" ELSE "none",
                 optionalOriginError(el.hasOrigin, el.origin),
                 IF hasGeometryEl(el) THEN geometryError(el.geometry) ELSE "none">>)
parseCollision(el, opts) ==
    [origin |-> optionalOrigin(el.hasOrigin, el.origin),
     geometry |-> parseGeometry(el.geometry, opts)]

\* an <inertial> element is delivered as an object when it has a child
inertialFilled(el) == el.hasOrigin \/ el.hasMass

\* parseInertial, lines 251-284: origin and mass
inertialError(el) == optionalOriginError(el.hasOrigin, el.origin)
parseInertial(el) ==
    [origin |-> optionalOrigin(el.hasOrigin, el.origin),
     mass |-> IF getChild(el.hasMass, el.mass.has) THEN getAttribute(el.mass, 0) ELSE 0]

NoInertial == [origin |-> ZeroPose, mass |-> 0]

\* a <link> element is delivered as an object when it has the name
\* attribute or a child
linkFilled(el) ==
    \/ el.hasName \/ el.hasInertial \/ el.hasSelfCollision
    \/ el.visuals # <<>> \/ el.collisions # <<>>

\* parseLink, line 363: the inertialEl that getChild returns
hasInertialEl(el) == getChild(el.hasInertial, inertialFilled(el.inertial))

\* parseLink, lines 378-383: whether selfCollision is set, which takes the
\* <self_collision_checking> child and its <geometry>
hasSelfCollisionGeometry(el) ==
    /\ getChild(el.hasSelfCollision, shapeFilled(el.selfCollision))
    /\ hasGeometryEl(el.selfCollision)

\* parseLink, lines 384-387: origin, then geometry
selfCollisionError(el) ==
    FirstError(<<optionalOriginError(el.hasOrigin, el.origin), geometryError(el.geometry)>>)
parseSelfCollision(el, opts) ==
    [origin |-> optionalOrigin(el.hasOrigin, el.origin),
     geometry |-> parseGeometry(el.geometry, opts)]

NoSelfCollision ==
    [origin |-> ZeroPose,
     geometry |-> [type |-> "none", size |-> ZeroVec, filename |-> <<>>,
                   hasScale |-> FALSE, scale |-> ZeroVec]]

\* parseLink, lines 351-392
linkError(el) ==
    LET visuals == getChildren(el.visuals, el.visuals # <<>> /\ shapeFilled(el.visuals[1]))
        collisions == getChildren(el.collisions, el.collisions # <<>> /\ shapeFilled(el.collisions[1]))
    IN  FirstError(<<IF nameOf(el.hasName, el.name) = ""
                     THEN "Link element missing name attribute" ELSE "none",
                     IF hasInertialEl(el) THEN inertialError(el.inertial) ELSE "none">>
                   \o [i \in 1..Len(visuals) |-> visualError(visuals[i])]
                   \o [i \in 1..Len(collisions) |-> collisionError(collisions[i])]
                   \o <<IF hasSelfCollisionGeometry(el)
                        THEN selfCollisionError(el.selfCollision) ELSE "none">>)
parseLink(el, opts) ==
    LET visuals == getChildren(el.visuals, el.visuals # <<>> /\ shapeFilled(el.visuals[1]))
        collisions == getChildren(el.collisions, el.collisions # <<>> /\ shapeFilled(el.collisions[1]))
    IN  [name |-> el.name,
         hasInertial |-> hasInertialEl(el),
         inertial |-> IF hasInertialEl(el) THEN parseInertial(el.inertial) ELSE NoInertial,
         visuals |-> [i \in 1..Len(visuals) |-> parseVisual(visuals[i], opts)],
         collisions |-> [i \in 1..Len(collisions) |-> parseCollision(collisions[i], opts)],
         hasSelfCollision |-> hasSelfCollisionGeometry(el),
         selfCollision |-> IF hasSelfCollisionGeometry(el)
                           THEN parseSelfCollision(el.selfCollision, opts)
                           ELSE NoSelfCollision]

\* a <material> element of the robot: its name and the rgba of its <color>
MaterialEl(hasName, name, hasColor, rgba) ==
    [hasName |-> hasName, name |-> name, hasColor |-> hasColor, rgba |-> rgba]

\* parseColor, lines 121-134
colorError(rgba) ==
    IF partsLength(attrOr(rgba, <<0, 0, 0, 1>>)) # 4 THEN "Invalid color format" ELSE "none"
parseColor(rgba) == attrOr(rgba, <<0, 0, 0, 1>>)

\* a <material> element is delivered as an object when it has the name
\* attribute or the <color> child
materialFilled(el) == el.hasName \/ el.hasColor

\* parseMaterial, line 145: the colorEl that getChild returns
hasColorEl(el) == getChild(el.hasColor, el.rgba.has)

\* parseMaterial, lines 139-162
materialError(el) ==
    FirstError(<<IF nameOf(el.hasName, el.name) = ""
                 THEN "Material element missing name attribute" ELSE "none",
                 IF hasColorEl(el) THEN colorError(el.rgba) ELSE "none">>)
parseMaterial(el) ==
    [name |-> el.name, hasColor |-> hasColorEl(el),
     color |-> IF hasColorEl(el) THEN parseColor(el.rgba) ELSE <<>>]

\* the parsed document: hasRobot tells whether it has a <robot> root,
\* hasName whether the root has the name attribute, the rest are the root's
\* <material>, <link> and <joint> children in document order
RobotDoc(materials, links, joints) ==
    [hasRobot |-> TRUE, hasName |-> TRUE,
     materials |-> materials, links |-> links, joints |-> joints]

\* the <robot> element is delivered as an object when it has the name
\* attribute or a child
robotFilled(d) ==
    d.hasName \/ d.materials # <<>> \/ d.links # <<>> \/ d.joints # <<>>

\* faulty variant: an existing key is removed and put back at the end
MapSetReinserts(m, v) ==
    Append(SelectSeq(m, LAMBDA e : e.name # v.name), v)

\* Map.prototype.set on a map kept as the sequence of its values in iteration
\* order: a new key is appended, an existing key keeps its position and takes
\* the new value
MapSet(m, v) ==
    IF \E i \in 1..Len(m) : m[i].name = v.name
    THEN [i \in 1..Len(m) |-> IF m[i].name = v.name THEN v ELSE m[i]]
    ELSE Append(m, v)

RECURSIVE MapSetAll(_, _)
MapSetAll(m, vs) ==
    IF vs = <<>> THEN m ELSE MapSetAll(MapSet(m, Head(vs)), Tail(vs))

Keys(m) == {m[i].name : i \in 1..Len(m)}

\* parseURDF, lines 597-601: the names that are some joint's child
childLinks(joints) == {joints[i].child : i \in 1..Len(joints)}

\* faulty variant: the loop keeps going and the last candidate wins (no break)
FirstRootIndexLast(links, children) ==
    CHOOSE i \in 1..Len(links) :
        /\ links[i].name \notin children
        /\ \A k \in (i + 1)..Len(links) : links[k].name \in children

\* lines 603-608: the position of the first key of model.links not in childLinks
FirstRootIndex(links, children) ==
    CHOOSE i \in 1..Len(links) :
        /\ links[i].name \notin children
        /\ \A k \in 1..(i - 1) : links[k].name \in children

\* parseURDF, lines 603-608: the first key of model.links not in childLinks;
\* <<>> when the loop ends without assigning rootLink
findRootLink(links, joints) ==
    LET children == childLinks(joints)
    IN  IF \E i \in 1..Len(links) : links[i].name \notin children
        THEN <<links[FirstRootIndex(links, children)].name>>
        ELSE <<>>

\* parseURDF, lines 549-611: the exception it ends with, "none" if it returns;
\* materials are parsed first, then links, then joints, and the first
\* exception ends the call
parseError(d) ==
    LET materialElements == getChildren(d.materials, d.materials # <<>> /\ materialFilled(d.materials[1]))
        linkElements == getChildren(d.links, d.links # <<>> /\ linkFilled(d.links[1]))
        jointElements == getChildren(d.joints, d.joints # <<>> /\ jointFilled(d.joints[1]))
    IN  IF ~(d.hasRobot /\ robotFilled(d))
        THEN "URDF document missing <robot> root element"
        ELSE FirstError(
                 [i \in 1..Len(materialElements) |-> materialError(materialElements[i])]
                 \o [i \in 1..Len(linkElements) |-> linkError(linkElements[i])]
                 \o [i \in 1..Len(jointElements) |-> jointError(jointElements[i])])

\* parseURDF: the model returned when no exception is raised
parseURDF(d, opts) ==
    LET materialElements == getChildren(d.materials, d.materials # <<>> /\ materialFilled(d.materials[1]))
        linkElements == getChildren(d.links, d.links # <<>> /\ linkFilled(d.links[1]))
        jointElements == getChildren(d.joints, d.joints # <<>> /\ jointFilled(d.joints[1]))
        materials ==
            MapSetAll(<<>>, [i \in 1..Len(materialElements) |->
                                 parseMaterial(materialElements[i])])
        links == MapSetAll(<<>>, [i \in 1..Len(linkElements) |->
                                      parseLink(linkElements[i], opts)])
        joints == MapSetAll(<<>>, [i \in 1..Len(jointElements) |->
                                       parseJoint(jointElements[i])])
    IN  [materials |-> materials, links |-> links, joints |-> joints,
         rootLink |-> findRootLink(links, joints)]

NoModel == [materials |-> <<>>, links |-> <<>>, joints |-> <<>>, rootLink |-> <<>>]

----------------------------------------------------------------------------
(* The kinematic tree (builder.ts buildRobotStructure) *)

DefaultOptions == [convertToYUp |-> TRUE, showDebug |-> TRUE]

\* a BuildRobotOptions object; has... tells whether the key is present
BuildOptions(hasConvertToYUp, convertToYUp, hasShowDebug, showDebug) ==
    [hasConvertToYUp |-> hasConvertToYUp, convertToYUp |-> convertToYUp,
     hasShowDebug |-> hasShowDebug, showDebug |-> showDebug]

\* the default argument `options = {}`
NoOptions == BuildOptions(FALSE, FALSE, FALSE, FALSE)

\* lines 132-138: the destructuring of options, absent keys taking their defaults
resolveOptions(o) ==
    [convertToYUp |-> IF o.hasConvertToYUp THEN o.convertToYUp
                      ELSE DefaultOptions.convertToYUp,
     showDebug |-> IF o.hasShowDebug THEN o.showDebug ELSE DefaultOptions.showDebug]

\* line 249: buildRobot builds with {...options, showDebug: true};
\* lines 260-262: loadRobot builds with showDebug as given, false when omitted
entryOptions(e, o) ==
    IF e = "buildRobot"
    THEN [o EXCEPT !.hasShowDebug = TRUE, !.showDebug = TRUE]
    ELSE [o EXCEPT !.hasShowDebug = TRUE, !.showDebug = o.hasShowDebug /\ o.showDebug]

NoJoint == parseJoint(JointEl("", "fixed", "", "", ZeroPose, FALSE, ZeroVec, FALSE, NoLimitAttrs))

\* faulty variant: every link group is added to the robot instead of parentObject
newLinkGroupUnderRobot(linkName, parentObject) ==
    [kind |-> "link", name |-> linkName, parent |-> 0,
     position |-> ZeroVec, quaternion |-> Identity3,
     data |-> NoJoint, axis |-> ZeroVec, originQuaternion |-> Identity3,
     jointValue |-> 0, twiceLengthSq |-> 2]

\* lines 169-172: the Group created for a link, added under parentObject
\* (parent 0 is the robot itself)
newLinkGroup(linkName, parentObject) ==
    [kind |-> "link", name |-> linkName, parent |-> parentObject,
     position |-> ZeroVec, quaternion |-> Identity3,
     data |-> NoJoint, axis |-> ZeroVec, originQuaternion |-> Identity3,
     jointValue |-> 0, twiceLengthSq |-> 2]

\* line 187: the normalized declared axis, +Z when the joint declares none
jointAxis(jointData) ==
    IF jointData.hasAxis THEN Normalize(jointData.axis) ELSE Vec(0, 0, 1)

\* faulty variant: the joint object is left at its parent's origin, its
\* origin translation is not copied
newJointObjectAtParent(jointData, linkGroup) ==
    LET originQuaternion == setFromEuler(rpyToEuler(jointData.origin.rpy))
    IN  [kind |-> "joint", name |-> jointData.name, parent |-> linkGroup,
         position |-> ZeroVec, quaternion |-> originQuaternion,
         data |-> jointData, axis |-> jointAxis(jointData),
         originQuaternion |-> originQuaternion,
         jointValue |-> 0, twiceLengthSq |-> 2]

\* lines 183-195 and 231: the URDFJoint created for jointData under the link
\* group; `data` and `originQuaternion` are what its setJointValue closes over
newJointObject(jointData, linkGroup) ==
    LET originQuaternion == setFromEuler(rpyToEuler(jointData.origin.rpy))
    IN  [kind |-> "joint", name |-> jointData.name, parent |-> linkGroup,
         position |-> jointData.origin.xyz, quaternion |-> originQuaternion,
         data |-> jointData, axis |-> jointAxis(jointData),
         originQuaternion |-> originQuaternion,
         jointValue |-> 0, twiceLengthSq |-> 2]

\* faulty variant: the lower bound is never applied
clampValueUpperOnly(jointData, value) ==
    IF jointData.hasLimits /\ jointData.limits.hasUpper /\ value > jointData.limits.upper
    THEN jointData.limits.upper ELSE value

\* lines 204-211: the requested value after the limit checks
clampValue(jointData, value) ==
    LET v1 == IF jointData.hasLimits /\ jointData.limits.hasLower
                 /\ value < jointData.limits.lower
              THEN jointData.limits.lower ELSE value
    IN  IF jointData.hasLimits /\ jointData.limits.hasUpper
           /\ v1 > jointData.limits.upper
        THEN jointData.limits.upper ELSE v1

\* faulty variant: the switch without its type test, every joint slides along its axis
applyJointValueAlwaysSlides(jointObject, value) ==
    [jointObject EXCEPT
        !.jointValue = value,
        !.position = VecAdd(jointObject.data.origin.xyz, VecScale(jointObject.axis, value))]

\* faulty variant: the transform is composed onto the node's current pose, not the origin pose
applyJointValueAccumulates(jointObject, value) ==
    IF jointObject.data.type \in {"revolute", "continuous"}
    THEN [jointObject EXCEPT
            !.jointValue = value,
            !.quaternion = MatMul(jointObject.quaternion,
                                  setFromAxisAngle(jointObject.axis, value)),
            !.twiceLengthSq = axisAngleLengthSq(jointObject.axis, value)]
    ELSE IF jointObject.data.type = "prismatic"
    THEN [jointObject EXCEPT
            !.jointValue = value,
            !.position = VecAdd(jointObject.position, VecScale(jointObject.axis, value))]
    ELSE [jointObject EXCEPT !.jointValue = value]

\* lines 212-228: store the value and recompute the local transform
applyJointValue(jointObject, value) ==
    LET type == jointObject.data.type
        axis == jointObject.axis
    IN  IF type \in {"revolute", "continuous"}
        THEN [jointObject EXCEPT
                !.jointValue = value,
                !.quaternion = MatMul(jointObject.originQuaternion,
                                      setFromAxisAngle(axis, value)),
                !.twiceLengthSq = axisAngleLengthSq(axis, value)]
        ELSE IF type = "prismatic"
        THEN [jointObject EXCEPT
                !.jointValue = value,
                !.position = VecAdd(jointObject.data.origin.xyz, VecScale(axis, value))]
        ELSE [jointObject EXCEPT !.jointValue = value]

\* lines 203-229: jointObject.setJointValue(value)
setJointValue(jointObject, value) ==
    applyJointValue(jointObject, clampValue(jointObject.data, value))

\* lines 158-163: the outgoing joints of a link, in model.joints order
jointsByParent(m, linkName) ==
    SelectSeq(m.joints, LAMBDA j : j.parent = linkName)

\* Map.prototype.set on robot.links / robot.joints (name -> node)
Put(f, k, v) == [x \in DOMAIN f \cup {k} |-> IF x = k THEN v ELSE f[x]]

\* faulty variant: the root is turned whatever convertToYUp says
EmptyRobotAlwaysYUp(opts) ==
    [links |-> <<>>, joints |-> <<>>, rotationX |-> -1]

\* lines 140-147: the new robot Group, rotation.x = -pi/2 when convertToYUp
EmptyRobot(opts) ==
    [links |-> <<>>, joints |-> <<>>,
     rotationX |-> IF opts.convertToYUp THEN -1 ELSE 0]

\* lines 174-178: the debug sphere added to a link group
newJointSphere(linkName, linkGroup) ==
    [kind |-> "sphere", name |-> linkName, parent |-> linkGroup, target |-> ZeroVec]

\* lines 197-201: the debug line added to the link group of a joint's parent,
\* from the group's origin to the joint's origin
newLinkLine(jointData, linkGroup) ==
    [kind |-> "line", name |-> jointData.name, parent |-> linkGroup,
     target |-> jointData.origin.xyz]

\* lines 132-147: the state of a build call before its first buildLink call;
\* `opts` are the destructured options the nested functions close over
newTree(opts) ==
    [nodes |-> <<>>, markers |-> <<>>, robot |-> EmptyRobot(opts), stack |-> <<>>,
     opts |-> opts]

\* lines 165-180: entering buildLink(linkName, parentObject) with the
\* tree `t` = [nodes, markers, robot, stack, opts]: nothing for a name
\* model.links lacks, otherwise the link group is created and registered,
\* gets its debug sphere if showDebug, and its joint loop begins
enterBuildLink(m, linkName, parentObject, t) ==
    IF linkName \notin Keys(m.links)
    THEN t
    ELSE LET id == Len(t.nodes) + 1
         IN  [t EXCEPT
                !.nodes = Append(@, newLinkGroup(linkName, parentObject)),
                !.robot.links = Put(@, linkName, id),
                !.markers = IF t.opts.showDebug
                            THEN Append(@, newJointSphere(linkName, id)) ELSE @,
                !.stack = Append(@, [link |-> linkName, group |-> id, i |-> 1])]

\* lines 182-234: one iteration of the joint loop of the innermost buildLink
\* call: the joint object is created, its debug line is added if showDebug,
\* it is added and registered, then buildLink is entered for its child
buildJoint(m, t) ==
    LET top == t.stack[Len(t.stack)]
        jointData == jointsByParent(m, top.link)[top.i]
        id == Len(t.nodes) + 1
        t1 == [t EXCEPT
                !.nodes = Append(@, newJointObject(jointData, top.group)),
                !.markers = IF t.opts.showDebug
                            THEN Append(@, newLinkLine(jointData, top.group)) ELSE @,
                !.robot.joints = Put(@, jointData.name, id),
                !.stack[Len(t.stack)].i = top.i + 1]
    IN  enterBuildLink(m, jointData.child, id, t1)

NoCall == [op |-> "none", applied |-> {}, ignored |-> {}]

NoRequest == [last |-> <<>>, again |-> FALSE]
NoRequests(n) == [k \in 1..n |-> NoRequest]

\* the options the running build call was started with
BuildCallOptions == resolveOptions(entryOptions(entry, options))

Tree == [nodes |-> nodes, markers |-> markers, robot |-> robot, stack |-> stack,
         opts |-> BuildCallOptions]

\* the tree of a second build call before that call is made
NoTree == [built |-> FALSE, nodes |-> <<>>, markers |-> <<>>,
           robot |-> EmptyRobot(DefaultOptions)]

SetTree(t) ==
    /\ nodes' = t.nodes
    /\ markers' = t.markers
    /\ robot' = t.robot
    /\ stack' = t.stack
    /\ requests' = NoRequests(Len(t.nodes))

\* parseURDF(doc, parseOptions): the model is returned, or an exception ends
\* the call and no model is returned
Parse ==
    /\ phase = "input"
    /\ IF parseError(doc) = "none"
       THEN /\ model' = parseURDF(doc, parseOptions)
            /\ phase' = "parsed"
            /\ error' = error
       ELSE /\ model' = model
            /\ phase' = "failed"
            /\ error' = parseError(doc)
    /\ UNCHANGED <<second, markers, doc, parseOptions, entry, loads, options, nodes, robot, stack, requests, lastCall>>

\* faulty variant: without a root link the traversal starts at the first link
startBuildAtFirstLink(m, t0) ==
    IF m.rootLink # <<>>
    THEN enterBuildLink(m, m.rootLink[1], 0, t0)
    ELSE IF m.links # <<>>
    THEN enterBuildLink(m, m.links[1].name, 0, t0)
    ELSE t0

\* lines 238-240: buildLink is called for the root link, if the model has one
startBuild(m, t0) ==
    IF m.rootLink # <<>>
    THEN enterBuildLink(m, m.rootLink[1], 0, t0)
    ELSE t0

\* buildRobotStructure up to the first buildLink call (lines 140-147, 238-240)
BuildStart ==
    /\ phase = "parsed"
    /\ LET t1 == startBuild(model, newTree(BuildCallOptions))
       IN  /\ SetTree(t1)
           /\ phase' = IF t1.stack = <<>> THEN "built" ELSE "building"
    /\ UNCHANGED <<second, doc, parseOptions, entry, loads, options, model, error, lastCall>>

\* one iteration of the joint loop; the nested buildLink call fails with
\* RangeError when the call stack is exhausted
BuildJoint ==
    /\ phase = "building"
    /\ LET top == stack[Len(stack)]
       IN  top.i <= Len(jointsByParent(model, top.link))
    /\ IF Len(stack) >= MaxCallDepth
       THEN /\ phase' = "overflow"
            /\ error' = "RangeError"
            /\ UNCHANGED <<nodes, markers, robot, stack, requests>>
       ELSE /\ SetTree(buildJoint(model, Tree))
            /\ UNCHANGED <<phase, error>>
    /\ UNCHANGED <<second, doc, parseOptions, entry, loads, options, model, lastCall>>

\* the joint loop of the innermost buildLink call is over: it returns
BuildReturn ==
    /\ phase = "building"
    /\ LET top == stack[Len(stack)]
       IN  top.i > Len(jointsByParent(model, top.link))
    /\ stack' = SubSeq(stack, 1, Len(stack) - 1)
    /\ phase' = IF Len(stack) = 1 THEN "built" ELSE "building"
    /\ UNCHANGED <<second, markers, doc, parseOptions, entry, loads, options, model, nodes, robot, error, requests, lastCall>>

----------------------------------------------------------------------------
(* Documents of the topology family: any joint graph over a few link names *)

LinkRefs == {"base", "arm", "tip", "ghost"}

LinkLists ==
    { <<>>,
      <<LinkEl("base")>>,
      <<LinkEl("base"), LinkEl("arm"), LinkEl("tip")>>,
      <<LinkEl("tip"), LinkEl("base")>>,
      <<LinkEl("arm"), LinkEl("base"), LinkEl("arm")>> }

JointNames == <<"j1", "j2", "j3">>

TopoJoint(i, parent, child) ==
    JointEl(JointNames[i], "revolute", parent, child,
            [xyz |-> Vec(i, 0, 0), rpy |-> ZeroRPY], FALSE, ZeroVec, FALSE, NoLimitAttrs)

TopoJointLists ==
    UNION { { [i \in 1..n |-> TopoJoint(i, e[i][1], e[i][2])] :
                e \in [1..n -> LinkRefs \X LinkRefs] } : n \in 0..MaxJoints }

\* a link reached from the root by two joints, with a joint of its own below it
MultiPathDocs ==
    { RobotDoc(<<>>, <<LinkEl("base"), LinkEl("arm"), LinkEl("tip")>>,
               <<TopoJoint(1, "base", "arm"), TopoJoint(2, "base", "arm"),
                 TopoJoint(3, "arm", "tip")>>) }

\* a joint to a link the document lacks, below a link that is its own child
DanglingCycleDocs ==
    { RobotDoc(<<>>, <<LinkEl("base"), LinkEl("arm")>>,
               <<TopoJoint(1, "base", "arm"), TopoJoint(2, "arm", "arm"),
                 TopoJoint(3, "arm", "ghost")>>) }

TopoDocs ==
    { RobotDoc(<<>>, ls, js) : ls \in LinkLists, js \in TopoJointLists }
    \cup MultiPathDocs \cup DanglingCycleDocs

InitWithOptions(docs, opts) ==
    /\ doc \in docs
    /\ parseOptions = NoParseOptions
    /\ entry = "buildRobot"
    /\ loads = <<>>
    /\ options \in opts
    /\ model = NoModel
    /\ phase = "input"
    /\ nodes = <<>>
    /\ robot = EmptyRobot(DefaultOptions)
    /\ stack = <<>>
    /\ error = "none"
    /\ requests = <<>>
    /\ lastCall = NoCall
    /\ markers = <<>>
    /\ second = NoTree

InitWith(docs) == InitWithOptions(docs, {NoOptions})

InitBuild == InitWith(TopoDocs)

NextBuild == Parse \/ BuildStart \/ BuildJoint \/ BuildReturn

\* parse, then build, over the topology family
SpecBuild == InitBuild /\ [][NextBuild]_vars

----------------------------------------------------------------------------
(* Joint values: setJointValue and setJointValues on a built tree *)

Values == (0 - MaxValue)..MaxValue

IsJoint(n) == n \in 1..Len(nodes) /\ nodes[n].kind = "joint"

Requested(r, value) == [last |-> <<value>>, again |-> r.last # <<>>]

\* faulty variant: the joints that declare a mimic relation to the joint
\* being set follow it, at multiplier * value + offset
callSetJointValueDrivesMimics(ns, n, value) ==
    [k \in 1..Len(ns) |->
        IF k = n THEN setJointValue(ns[k], value)
        ELSE IF ns[k].kind = "joint" /\ ns[k].data.hasMimic
                /\ ns[k].data.mimic.joint = ns[n].name
        THEN setJointValue(ns[k],
                 (IF ns[k].data.mimic.hasMultiplier THEN ns[k].data.mimic.multiplier ELSE 1)
                     * value
                 + (IF ns[k].data.mimic.hasOffset THEN ns[k].data.mimic.offset ELSE 0))
        ELSE ns[k]]

\* lines 203-229: the call writes jointObject.jointValue, .quaternion and
\* .position of the object its closure was made for, and nothing else
callSetJointValue(ns, n, value) == [ns EXCEPT ![n] = setJointValue(@, value)]

\* joint.setJointValue(value) on the joint object `n` of the tree
SetJointValue(n, value) ==
    /\ phase = "built"
    /\ IsJoint(n)
    /\ nodes' = callSetJointValue(nodes, n, value)
    /\ requests' = [requests EXCEPT ![n] = Requested(@, value)]
    /\ lastCall' = [op |-> "setJointValue", applied |-> {nodes[n].name}, ignored |-> {}]
    /\ UNCHANGED <<second, markers, doc, parseOptions, entry, loads, options, model, phase, robot, stack, error>>

\* faulty variant: the loop ends at the first key that names no joint
RECURSIVE forEachEntryUntilUnknown(_, _, _)
forEachEntryUntilUnknown(rb, entries, t) ==
    IF entries = <<>> \/ Head(entries).name \notin DOMAIN rb.joints
    THEN t
    ELSE forEachEntryUntilUnknown(rb, Tail(entries),
             [nodes |-> [t.nodes EXCEPT ![rb.joints[Head(entries).name]] =
                                            setJointValue(@, Head(entries).value)],
              requests |-> [t.requests EXCEPT ![rb.joints[Head(entries).name]] =
                                            Requested(@, Head(entries).value)]])

\* lines 150-155: the loop of setJointValues over Object.entries(values);
\* `t` = [nodes, requests] is threaded through the entries
RECURSIVE forEachEntry(_, _, _)
forEachEntry(rb, entries, t) ==
    IF entries = <<>>
    THEN t
    ELSE LET name == Head(entries).name
             value == Head(entries).value
         IN  IF name \in DOMAIN rb.joints
             THEN forEachEntry(rb, Tail(entries),
                      [nodes |-> [t.nodes EXCEPT ![rb.joints[name]] = setJointValue(@, value)],
                       requests |-> [t.requests EXCEPT ![rb.joints[name]] = Requested(@, value)]])
             ELSE forEachEntry(rb, Tail(entries), t)

EntryNames(values) == {values[i].name : i \in 1..Len(values)}

\* robot.setJointValues(values); `values` is the sequence of its entries
SetJointValues(values) ==
    /\ phase = "built"
    /\ lastCall' = [op |-> "setJointValues",
                    applied |-> EntryNames(values) \cap DOMAIN robot.joints,
                    ignored |-> EntryNames(values) \ DOMAIN robot.joints]
    /\ LET t == forEachEntry(robot, values, [nodes |-> nodes, requests |-> requests])
       IN  /\ nodes' = t.nodes
           /\ requests' = t.requests
    /\ UNCHANGED <<second, markers, doc, parseOptions, entry, loads, options, model, phase, robot, stack, error>>

\* the mappings handed to setJointValues: up to MaxEntries entries with
\* distinct keys, among them a name no joint has
BulkNames == {"j1", "j2", "nope"}
BulkValue(name) == IF name = "j1" THEN 1 ELSE 0 - MaxValue
Entry(name, value) == [name |-> name, value |-> value]
Mappings ==
    UNION { { [i \in 1..n |-> Entry(ks[i], BulkValue(ks[i]))] :
                ks \in { f \in [1..n -> BulkNames] :
                            \A a, b \in 1..n : a # b => f[a] # f[b] } } : n \in 0..MaxEntries }

----------------------------------------------------------------------------
(* A second build call on the same model, and joint-value calls on its tree *)

\* lines 182-236: the joint loops of the active buildLink calls run to their
\* end, the innermost first (for a model whose traversal ends)
RECURSIVE runBuildLink(_, _)
runBuildLink(m, t) ==
    IF t.stack = <<>> THEN t
    ELSE LET top == t.stack[Len(t.stack)]
         IN  IF top.i <= Len(jointsByParent(m, top.link))
             THEN runBuildLink(m, buildJoint(m, t))
             ELSE runBuildLink(m, [t EXCEPT !.stack = SubSeq(@, 1, Len(@) - 1)])

\* buildRobotStructure(model, options) from call to return
buildRobotStructure(m, opts) == runBuildLink(m, startBuild(m, newTree(opts)))

\* faulty variant: the call hands out the objects of the tree built before
buildAgainSharesObjects(m, opts, existing) ==
    [built |-> TRUE, nodes |-> existing.nodes, markers |-> existing.markers,
     robot |-> existing.robot]

\* a build call made while a tree `existing` of the same model is around:
\* the robot, every link group and every joint object are created by `new`
\* in the call (lines 140, 169, 183) and nothing of `existing` is read
buildAgain(m, opts, existing) ==
    LET t == buildRobotStructure(m, opts)
    IN  [built |-> TRUE, nodes |-> t.nodes, markers |-> t.markers, robot |-> t.robot]

\* buildRobot(model, options) is called a second time
BuildSecond ==
    /\ phase = "built"
    /\ entry = "buildRobot"
    /\ ~second.built
    /\ second' = buildAgain(model, BuildCallOptions, Tree)
    /\ UNCHANGED <<doc, parseOptions, entry, options, model, phase, nodes, markers, robot,
                   stack, error, loads, requests, lastCall>>

\* joint.setJointValue(value) on the joint object `n` of the second tree
SetSecondJointValue(n, value) ==
    /\ phase = "built"
    /\ second.built
    /\ n \in 1..Len(second.nodes)
    /\ second.nodes[n].kind = "joint"
    /\ second' = [second EXCEPT !.nodes = callSetJointValue(@, n, value)]
    /\ UNCHANGED <<doc, parseOptions, entry, options, model, phase, nodes, markers, robot,
                   stack, error, loads, requests, lastCall>>

----------------------------------------------------------------------------
(* loadRobot (builder.ts 256-315): the tree is built, one stlLoader.load   *)
(* is issued per mesh visual, each load ends in one of its two callbacks,  *)
(* and the promise resolves once Promise.all of the loads has              *)

\* lines 269-277: the mesh visuals loadRobot issues a load for, link by link
\* in model.links order and visual by visual: those of a link that has a
\* node, whose geometry is a mesh with a non-empty filename
RECURSIVE meshLoadsOf(_, _, _)
meshLoadsOf(link, group, k) ==
    IF k > Len(link.visuals) THEN <<>>
    ELSE IF link.visuals[k].geometry.type = "mesh" /\ link.visuals[k].geometry.filename # <<>>
    THEN <<[link |-> link.name, group |-> group, visual |-> k,
            status |-> "pending", mesh |-> 0]>> \o meshLoadsOf(link, group, k + 1)
    ELSE meshLoadsOf(link, group, k + 1)

RECURSIVE meshLoads(_, _, _)
meshLoads(m, rb, i) ==
    IF i > Len(m.links) THEN <<>>
    ELSE IF m.links[i].name \in DOMAIN rb.links
    THEN meshLoadsOf(m.links[i], rb.links[m.links[i].name], 1) \o meshLoads(m, rb, i + 1)
    ELSE meshLoads(m, rb, i + 1)

\* the parsed visual a load was issued for
visualOf(m, load) ==
    LET link == m.links[CHOOSE i \in 1..Len(m.links) : m.links[i].name = load.link]
    IN  link.visuals[load.visual]

\* lines 282-293: the Mesh made in the success callback, posed at the
\* visual's origin and added to the link group
newMesh(visual, load) ==
    [kind |-> "mesh", name |-> load.link, parent |-> load.group,
     position |-> visual.origin.xyz,
     quaternion |-> setFromEuler(rpyToEuler(visual.origin.rpy)),
     data |-> NoJoint, axis |-> ZeroVec, originQuaternion |-> Identity3,
     jointValue |-> 0, twiceLengthSq |-> 2]

\* faulty variant: the visual's origin is applied to the link group handed
\* to the callback, and the mesh is added at the group's origin
onLoadPosesGroup(m, t, i) ==
    LET visual == visualOf(m, t.loads[i])
        group == t.loads[i].group
        posed == [t.nodes EXCEPT
                    ![group].position = visual.origin.xyz,
                    ![group].quaternion = setFromEuler(rpyToEuler(visual.origin.rpy))]
    IN  [nodes |-> Append(posed, [newMesh(visual, t.loads[i]) EXCEPT
                                     !.position = ZeroVec, !.quaternion = Identity3]),
         loads |-> [t.loads EXCEPT ![i].status = "loaded", ![i].mesh = Len(t.nodes) + 1]]

\* lines 281-297: the success callback of load i; `t` = [nodes, loads]
onLoad(m, t, i) ==
    [nodes |-> Append(t.nodes, newMesh(visualOf(m, t.loads[i]), t.loads[i])),
     loads |-> [t.loads EXCEPT ![i].status = "loaded", ![i].mesh = Len(t.nodes) + 1]]

\* faulty variant: the failure callback attaches a mesh all the same
onErrorAttaches(m, t, i) ==
    [nodes |-> Append(t.nodes, newMesh(visualOf(m, t.loads[i]), t.loads[i])),
     loads |-> [t.loads EXCEPT ![i].status = "failed"]]

\* lines 299-302: the failure callback of load i: a warning, nothing attached
onError(m, t, i) ==
    [nodes |-> t.nodes, loads |-> [t.loads EXCEPT ![i].status = "failed"]]

\* faulty variant: the promise resolves as soon as one load has ended
promiseAllFirst(ls) ==
    ls = <<>> \/ \E i \in 1..Len(ls) : ls[i].status # "pending"

\* line 312: Promise.all(loadPromises) is fulfilled when every load promise
\* is, and each is resolved by either callback
promiseAll(ls) == \A i \in 1..Len(ls) : ls[i].status # "pending"

\* loadRobot after buildRobotStructure returned: the loads are issued (lines 265-310)
IssueLoads ==
    /\ phase = "built"
    /\ entry = "loadRobot"
    /\ loads' = meshLoads(model, robot, 1)
    /\ phase' = "loading"
    /\ UNCHANGED <<second, markers, doc, parseOptions, entry, options, model, nodes, robot, stack, error,
                   requests, lastCall>>

\* the loader calls the success callback of load i
LoadSuccess(i) ==
    /\ phase = "loading"
    /\ i \in 1..Len(loads)
    /\ loads[i].status = "pending"
    /\ LET t == onLoad(model, [nodes |-> nodes, loads |-> loads], i)
       IN  /\ nodes' = t.nodes
           /\ loads' = t.loads
    /\ requests' = Append(requests, NoRequest)
    /\ UNCHANGED <<second, markers, doc, parseOptions, entry, options, model, phase, robot, stack, error, lastCall>>

\* the loader calls the failure callback of load i
LoadFailure(i) ==
    /\ phase = "loading"
    /\ i \in 1..Len(loads)
    /\ loads[i].status = "pending"
    /\ LET t == onError(model, [nodes |-> nodes, loads |-> loads], i)
       IN  /\ nodes' = t.nodes
           /\ loads' = t.loads
    /\ requests' = requests
    /\ UNCHANGED <<second, markers, doc, parseOptions, entry, options, model, phase, robot, stack, error, lastCall>>

\* lines 312-314: the await ends and loadRobot's promise resolves with the robot
Resolve ==
    /\ phase = "loading"
    /\ promiseAll(loads)
    /\ phase' = "loaded"
    /\ UNCHANGED <<second, markers, doc, parseOptions, entry, loads, options, model, nodes, robot, stack, error,
                   requests, lastCall>>

----------------------------------------------------------------------------
(* Documents of the kinematic family: one joint with every combination of  *)
(* type, limits, origin and axis; two-joint chains and forks               *)

LimitChoices ==
    { <<FALSE, NoLimitAttrs>>,
      <<TRUE, Limit(TRUE, -1, TRUE, 1)>>,
      <<TRUE, Limit(TRUE, -1, FALSE, 0)>>,
      <<TRUE, Limit(FALSE, 0, TRUE, 1)>>,
      <<TRUE, Limit(TRUE, 1, TRUE, 2)>>,
      <<TRUE, Limit(TRUE, -2, TRUE, -1)>>,
      <<TRUE, Limit(TRUE, 1, TRUE, -1)>> }

RPY(r, p, y) == [r |-> r, p |-> p, y |-> y]

OriginChoices ==
    { [xyz |-> ZeroVec, rpy |-> ZeroRPY],
      [xyz |-> Vec(1, 2, 3), rpy |-> RPY(1, 0, 0)],
      [xyz |-> Vec(1, 2, 3), rpy |-> RPY(1, 1, 0)],
      [xyz |-> ZeroVec, rpy |-> RPY(0, 3, 1)] }

AxisChoices ==
    { <<FALSE, ZeroVec>>,
      <<TRUE, ZeroVec>>,
      <<TRUE, Vec(1, 0, 0)>>,
      <<TRUE, Vec(0, -2, 0)>> }

OneJointDocs ==
    { RobotDoc(<<>>, <<LinkEl("base"), LinkEl("tip")>>,
               <<JointEl("j1", type, "base", "tip", origin, ax[1], ax[2], lim[1], lim[2])>>) :
        type \in JointTypes, origin \in OriginChoices, ax \in AxisChoices, lim \in LimitChoices }

FirstJoints ==
    { JointEl("j1", "prismatic", "base", "arm", [xyz |-> Vec(1, 0, 0), rpy |-> ZeroRPY],
              TRUE, Vec(1, 0, 0), FALSE, NoLimitAttrs),
      JointEl("j1", "revolute", "base", "arm", [xyz |-> Vec(1, 0, 0), rpy |-> ZeroRPY],
              FALSE, ZeroVec, TRUE, Limit(TRUE, -1, TRUE, 1)) }

SecondJoints ==
    { JointEl("j2", type, parent, "tip", [xyz |-> Vec(0, 2, 0), rpy |-> ZeroRPY],
              FALSE, ZeroVec, TRUE, Limit(TRUE, -1, TRUE, 1)) :
        type \in {"revolute", "fixed", "prismatic"}, parent \in {"base", "arm"} }

TwoJointDocs ==
    { RobotDoc(<<>>, <<LinkEl("base"), LinkEl("arm"), LinkEl("tip")>>, <<a, b>>) :
        a \in FirstJoints, b \in SecondJoints }

\* documents without a root link: no link at all, with and without a joint;
\* every link a joint's child (a self-loop, a two-link cycle)
RootlessKinDocs ==
    { RobotDoc(<<>>, <<>>, <<>>),
      RobotDoc(<<>>, <<>>, <<TopoJoint(1, "base", "arm")>>),
      RobotDoc(<<>>, <<LinkEl("base")>>, <<TopoJoint(1, "base", "base")>>),
      RobotDoc(<<>>, <<LinkEl("base"), LinkEl("arm")>>,
               <<TopoJoint(1, "base", "arm"), TopoJoint(2, "arm", "base")>>) }

\* a joint j2 that declares a mimic relation to j1: a revolute one below j1,
\* a prismatic one beside it
MimicJoints ==
    { [JointEl("j2", c[1], c[2], "tip", [xyz |-> Vec(0, 2, 0), rpy |-> ZeroRPY],
               FALSE, ZeroVec, TRUE, Limit(TRUE, -1, TRUE, 1))
          EXCEPT !.hasMimic = TRUE,
                 !.mimic = MimicEl(Attr(TRUE, "j1"), Attr(TRUE, <<2>>), Attr(TRUE, <<1>>))] :
        c \in {<<"revolute", "arm">>, <<"prismatic", "base">>} }

MimicDocs ==
    { RobotDoc(<<>>, <<LinkEl("base"), LinkEl("arm"), LinkEl("tip")>>,
               <<JointEl("j1", "revolute", "base", "arm", [xyz |-> Vec(1, 0, 0), rpy |-> ZeroRPY],
                         FALSE, ZeroVec, FALSE, NoLimitAttrs), b>>) :
        b \in MimicJoints }

KinDocs == OneJointDocs \cup TwoJointDocs \cup RootlessKinDocs \cup MimicDocs

Init == InitWith(KinDocs)

Next ==
    \/ Parse
    \/ BuildStart
    \/ BuildJoint
    \/ BuildReturn
    \/ \E n \in 1..Len(nodes), value \in Values : SetJointValue(n, value)
    \/ \E values \in Mappings : SetJointValues(values)

\* parse, build, then any sequence of joint-value calls, over the kinematic family
Spec == Init /\ [][Next]_vars

----------------------------------------------------------------------------
(* The same pipeline over the two-joint documents, built with each way of  *)
(* giving convertToYUp: omitted, true, false                               *)

OptionChoices ==
    { NoOptions,
      BuildOptions(TRUE, TRUE, FALSE, FALSE),
      BuildOptions(TRUE, FALSE, FALSE, FALSE) }

InitFrame == InitWithOptions(TwoJointDocs, OptionChoices)

SpecFrame == InitFrame /\ [][Next]_vars

----------------------------------------------------------------------------
(* Two trees of one model: chains whose second joint slides, and a single  *)
(* prismatic joint with a declared axis that is not a unit vector          *)

TwoTreeDocs ==
    { d \in TwoJointDocs : d.joints[2].parent = "arm" /\ d.joints[2].type = "prismatic" }
    \cup
    { RobotDoc(<<>>, <<LinkEl("base"), LinkEl("tip")>>,
               <<JointEl("j1", "prismatic", "base", "tip",
                         [xyz |-> Vec(1, 2, 3), rpy |-> RPY(1, 0, 0)],
                         TRUE, Vec(0, -2, 0), TRUE, Limit(TRUE, -1, TRUE, 1))>>) }

InitTwo == InitWith(TwoTreeDocs)

NextTwo ==
    \/ Parse
    \/ BuildStart
    \/ BuildJoint
    \/ BuildReturn
    \/ \E n \in 1..Len(nodes), value \in Values : SetJointValue(n, value)
    \/ \E values \in Mappings : SetJointValues(values)
    \/ BuildSecond
    \/ \E n \in 1..Len(second.nodes), value \in Values : SetSecondJointValue(n, value)

\* parse, build, a second build at any later moment, and any sequence of
\* joint-value calls on either tree
SpecTwo == InitTwo /\ [][NextTwo]_vars

----------------------------------------------------------------------------
(* Both entry points over the two-joint documents, with each way of giving *)
(* showDebug: omitted, true, false                                         *)

DebugChoices ==
    { NoOptions,
      BuildOptions(FALSE, FALSE, TRUE, TRUE),
      BuildOptions(FALSE, FALSE, TRUE, FALSE) }

InitDebug ==
    /\ doc \in TwoJointDocs
    /\ parseOptions = NoParseOptions
    /\ entry \in {"buildRobot", "loadRobot"}
    /\ loads = <<>>
    /\ options \in DebugChoices
    /\ model = NoModel
    /\ phase = "input"
    /\ nodes = <<>>
    /\ robot = EmptyRobot(DefaultOptions)
    /\ stack = <<>>
    /\ error = "none"
    /\ requests = <<>>
    /\ lastCall = NoCall
    /\ markers = <<>>
    /\ second = NoTree

NextDebug ==
    \/ Parse
    \/ BuildStart
    \/ BuildJoint
    \/ BuildReturn
    \/ IssueLoads
    \/ Resolve

\* parse, then buildRobot or loadRobot, with showDebug omitted, true or false
SpecDebug == InitDebug /\ [][NextDebug]_vars

----------------------------------------------------------------------------
(* Documents of the parsing family: up to MaxValid valid materials, links  *)
(* and joints, each list closed by one more element, valid or defective    *)

NoOrigin == OriginEl(NoAttr, NoAttr)
Str(tokens) == Attr(TRUE, tokens)

BoxEl(size) == GeometryEl({"box"}, size, NoAttr, NoAttr, NoAttr)
MeshEl(filename, scale) == GeometryEl({"mesh"}, NoAttr, NoAttr, Str(filename), scale)
\* a <visual> or <collision> holding only the geometry
Solid(geometry) == ShapeEl(FALSE, NoOrigin, TRUE, geometry)
LinkWith(visuals, collisions) ==
    [LinkEl("last") EXCEPT !.visuals = visuals, !.collisions = collisions]
\* a <cylinder>, <sphere> or <capsule> with the radius attribute, and one without
Round(tag) == GeometryEl({tag}, NoAttr, Str(<<1>>), NoAttr, NoAttr)
Bare(tags) == GeometryEl(tags, NoAttr, NoAttr, NoAttr, NoAttr)
\* a <visual> or <collision> without attributes and children
EmptyShape == ShapeEl(FALSE, NoOrigin, FALSE, Bare({}))
\* a link with a <self_collision_checking> child
LinkWithSelf(shape) ==
    [LinkEl("last") EXCEPT !.hasSelfCollision = TRUE, !.selfCollision = shape]

ValidMaterials == <<MaterialEl(TRUE, "grey", TRUE, Str(<<1, 1, 1, 1>>)),
                    MaterialEl(TRUE, "red", FALSE, NoAttr)>>
ValidLinks == <<LinkEl("base"), LinkEl("arm")>>
ValidJoints == <<TopoJoint(1, "base", "arm"), TopoJoint(2, "arm", "base")>>

LastMaterials ==
    { MaterialEl(TRUE, "last", TRUE, Str(<<0, 1, 0, 1>>)),
      MaterialEl(TRUE, "last", TRUE, NoAttr),
      MaterialEl(FALSE, "", FALSE, NoAttr),
      MaterialEl(FALSE, "", TRUE, Str(<<0, 1, 0, 1>>)),
      MaterialEl(TRUE, "last", TRUE, Str(<<0, 1, 0>>)),
      MaterialEl(TRUE, "last", TRUE, Str(<<>>)) }

LastLinks ==
    { LinkEl("last"),
      [LinkEl("last") EXCEPT !.hasName = FALSE],
      LinkEl(""),
      [LinkEl("last") EXCEPT !.hasInertial = TRUE],
      [LinkEl("last") EXCEPT !.hasInertial = TRUE, !.inertial.hasMass = TRUE],
      [LinkEl("last") EXCEPT !.hasInertial = TRUE, !.inertial.hasMass = TRUE,
                             !.inertial.mass = Attr(TRUE, 2)],
      LinkWith(<<Solid(BoxEl(Str(<<1, 2, 3>>)))>>, <<>>),
      LinkWith(<<Solid(BoxEl(Str(<<1, 2>>)))>>, <<>>),
      LinkWith(<<Solid(BoxEl(NoAttr))>>, <<>>),
      LinkWith(<<Solid(BoxEl(Str(<<1, 1, 1>>)))>>, <<Solid(Round("capsule"))>>),
      LinkWith(<<>>, <<Solid(Bare({"sphere"}))>>),
      LinkWith(<<Solid(Bare({"box", "cylinder"}))>>, <<>>),
      LinkWith(<<Solid(Bare({"torus"}))>>, <<>>),
      LinkWith(<<>>, <<Solid(Bare({}))>>),
      LinkWith(<<EmptyShape>>, <<>>),
      LinkWith(<<>>, <<EmptyShape>>),
      LinkWith(<<EmptyShape, EmptyShape>>, <<>>),
      LinkWith(<<>>, <<ShapeEl(TRUE, NoOrigin, FALSE, Bare({}))>>),
      LinkWith(<<ShapeEl(TRUE, OriginEl(Str(<<1, 2>>), NoAttr), TRUE, BoxEl(Str(<<1, 1, 1>>)))>>,
               <<>>),
      LinkWith(<<ShapeEl(TRUE, OriginEl(NoAttr, Str(<<0, 0, 0, 1>>)), TRUE,
                         BoxEl(Str(<<1, 1, 1>>)))>>, <<>>),
      LinkWith(<<ShapeEl(TRUE, OriginEl(Str(<<>>), Str(<<0, 0, 1>>)), TRUE,
                         BoxEl(Str(<<1, 1, 1>>)))>>, <<>>),
      LinkWithSelf(EmptyShape),
      LinkWithSelf(Solid(BoxEl(Str(<<1, 2, 3>>)))),
      LinkWithSelf(Solid(BoxEl(Str(<<1, 2>>)))),
      LinkWithSelf(Solid(Bare({"torus"}))),
      LinkWithSelf(ShapeEl(TRUE, OriginEl(Str(<<1, 2>>), NoAttr), TRUE, Round("sphere"))),
      LinkWithSelf(ShapeEl(TRUE, OriginEl(Str(<<1, 2>>), NoAttr), FALSE, Bare({}))),
      LinkWith(<<Solid(MeshEl(<<"a.stl">>, Str(<<2, 2, 2>>)))>>, <<>>),
      LinkWith(<<Solid(MeshEl(<<"a.stl">>, Str(<<2, 2>>)))>>, <<>>),
      LinkWith(<<Solid(MeshEl(<<"a.stl">>, Str(<<>>)))>>, <<>>) }

LastJoint == [TopoJoint(3, "base", "last") EXCEPT !.hasOrigin = FALSE, !.origin = NoOrigin]

\* a <joint> without attributes and children
EmptyJoint ==
    [LastJoint EXCEPT !.hasName = FALSE, !.hasType = FALSE,
                      !.hasParent = FALSE, !.hasParentLink = FALSE,
                      !.hasChild = FALSE, !.hasChildLink = FALSE]

LastJoints ==
    { LastJoint,
      EmptyJoint,
      [LastJoint EXCEPT !.hasLimit = TRUE],
      [LastJoint EXCEPT !.hasMimic = TRUE],
      [LastJoint EXCEPT !.hasName = FALSE],
      [LastJoint EXCEPT !.hasType = FALSE],
      [LastJoint EXCEPT !.hasParent = FALSE, !.hasParentLink = FALSE],
      [LastJoint EXCEPT !.hasChild = FALSE, !.hasChildLink = FALSE],
      [LastJoint EXCEPT !.hasParentLink = FALSE],
      [LastJoint EXCEPT !.child = ""],
      [LastJoint EXCEPT !.hasAxis = TRUE, !.axis = NoAttr],
      [LastJoint EXCEPT !.hasAxis = TRUE, !.axis = Str(<<0, 1, 0>>)],
      [LastJoint EXCEPT !.hasAxis = TRUE, !.axis = Str(<<0, 1>>)],
      [LastJoint EXCEPT !.hasOrigin = TRUE, !.origin = OriginEl(Str(<<1, 2, 3, 4>>), NoAttr)],
      [LastJoint EXCEPT !.hasOrigin = TRUE, !.origin = OriginEl(NoAttr, Str(<<>>))] }

\* the first k elements of `valid`, then nothing or one element of `last`
Lists(valid, last) ==
    UNION { {SubSeq(valid, 1, k)} \cup {Append(SubSeq(valid, 1, k), e) : e \in last} :
                k \in 0..MaxValid }

RootedDocs ==
    { RobotDoc(ms, ls, js) : ms \in Lists(ValidMaterials, LastMaterials),
                             ls \in Lists(ValidLinks, LastLinks),
                             js \in Lists(ValidJoints, LastJoints) }

\* documents whose root element is missing or is not <robot>
RootlessDocs ==
    { [RobotDoc(<<>>, ls, js) EXCEPT !.hasRobot = FALSE] :
          ls \in {SubSeq(ValidLinks, 1, k) : k \in 0..MaxValid},
          js \in {SubSeq(ValidJoints, 1, k) : k \in 0..MaxValid} }

\* documents whose <robot> has no name attribute: without and with a child
NamelessRobotDocs ==
    { [RobotDoc(<<>>, ls, <<>>) EXCEPT !.hasName = FALSE] :
          ls \in {SubSeq(ValidLinks, 1, k) : k \in 0..MaxValid} }

ParseDocs == RootedDocs \cup RootlessDocs \cup NamelessRobotDocs

\* Mesh filenames: package:// URIs of a mapped and of an unmapped package
\* and of two named as inherited properties, one without a path, relative
\* and absolute filenames, the empty filename
Filenames ==
    { <<"package://", "foo", "/", "bar.stl">>,
      <<"package://", "foo", "/", "meshes", "/", "bar.stl">>,
      <<"package://", "other", "/", "bar.stl">>,
      <<"package://", "constructor", "/", "a.stl">>,
      <<"package://", "__proto__", "/", "a.stl">>,
      <<"package://", "foo">>,
      <<"meshes", "/", "a.stl">>,
      <<"a.stl">>,
      <<"/", "abs", "/", "a.stl">>,
      <<>> }

\* packageMap: absent, empty, foo mapped to an absolute, a relative, an
\* empty prefix, and constructor mapped to a prefix
PackageMaps ==
    { <<FALSE, <<>>>>,
      <<TRUE, <<>>>>,
      <<TRUE, [n \in {"constructor"} |-> <<"/", "c">>]>>,
      <<TRUE, [n \in {"foo"} |-> <<"/", "x">>]>>,
      <<TRUE, [n \in {"foo"} |-> <<"models", "/", "foo">>]>>,
      <<TRUE, [n \in {"foo"} |-> <<>>]>> }

WorkingPaths == { <<>>, <<"/", "base">>, <<"work">> }

ParseOptionChoices ==
    { ParseOptions(pm[1], pm[2], wp) : pm \in PackageMaps, wp \in WorkingPaths }

\* one link with one mesh visual
MeshDoc(filename) ==
    RobotDoc(<<>>,
             <<[LinkEl("base") EXCEPT !.visuals = <<Solid(MeshEl(filename, NoAttr))>>]>>,
             <<>>)
MeshDocs == {MeshDoc(f) : f \in Filenames}

\* documents in which materials, links and joints share names: the later
\* element differs from the earlier one in its colour, its visuals, or the
\* links it joins
DupMaterials ==
    { <<>>,
      <<MaterialEl(TRUE, "grey", TRUE, Str(<<1, 1, 1, 1>>)), MaterialEl(TRUE, "red", FALSE, NoAttr),
        MaterialEl(TRUE, "grey", TRUE, Str(<<0, 1, 0, 1>>))>> }

BoxLink(name) ==
    [LinkEl(name) EXCEPT !.visuals = <<Solid(BoxEl(Str(<<1, 2, 3>>)))>>]

DupLinks ==
    { <<LinkEl("base"), LinkEl("arm")>>,
      <<BoxLink("base"), LinkEl("arm"), LinkEl("base")>>,
      <<LinkEl("arm"), LinkEl("base"), LinkEl("tip"), BoxLink("arm")>>,
      <<LinkEl("tip"), BoxLink("tip"), LinkEl("base")>> }

DupJoints ==
    { <<TopoJoint(1, "base", "arm")>>,
      <<TopoJoint(1, "base", "arm"), TopoJoint(1, "arm", "base")>>,
      <<TopoJoint(1, "base", "arm"), TopoJoint(2, "arm", "tip"), TopoJoint(1, "tip", "base")>>,
      <<TopoJoint(1, "arm", "tip"), TopoJoint(2, "base", "arm"), TopoJoint(2, "base", "tip")>> }

DupDocs == { RobotDoc(ms, ls, js) : ms \in DupMaterials, ls \in DupLinks, js \in DupJoints }

\* the parsing family without options, the mesh documents with every choice of options
InitParse ==
    /\ doc \in ParseDocs \cup MeshDocs \cup DupDocs
    /\ parseOptions \in IF doc \in MeshDocs THEN ParseOptionChoices ELSE {NoParseOptions}
    /\ entry = "buildRobot"
    /\ loads = <<>>
    /\ options = NoOptions
    /\ model = NoModel
    /\ phase = "input"
    /\ nodes = <<>>
    /\ robot = EmptyRobot(DefaultOptions)
    /\ stack = <<>>
    /\ error = "none"
    /\ requests = <<>>
    /\ lastCall = NoCall
    /\ markers = <<>>
    /\ second = NoTree

NextParse == Parse

\* parseURDF alone, over the parsing family
SpecParse == InitParse /\ [][NextParse]_vars

----------------------------------------------------------------------------
(* Documents of the loading family: base -> j1 -> arm, each link with one  *)
(* of a few lists of visuals                                               *)

Placed(xyz, rpy, geometry) ==
    ShapeEl(TRUE, OriginEl(Str(xyz), Str(rpy)), TRUE, geometry)

VisualLists ==
    { <<>>,
      <<Solid(MeshEl(<<"a.stl">>, NoAttr))>>,
      <<Solid(BoxEl(Str(<<1, 1, 1>>))), Placed(<<1, 0, 0>>, <<0, 0, 1>>, MeshEl(<<"b.stl">>, NoAttr))>>,
      <<Placed(<<0, 1, 0>>, <<1, 0, 0>>, MeshEl(<<"a.stl">>, NoAttr)),
        Placed(<<0, 0, 2>>, <<0, 1, 0>>, MeshEl(<<"/", "abs", "/", "b.stl">>, NoAttr))>>,
      <<Solid(MeshEl(<<>>, NoAttr)), Solid(MeshEl(<<"c.stl">>, NoAttr))>> }

LoadDocs ==
    { RobotDoc(<<>>,
               <<[LinkEl("base") EXCEPT !.visuals = vb], [LinkEl("arm") EXCEPT !.visuals = va],
                 [LinkEl("loose") EXCEPT !.visuals = va]>>,
               <<TopoJoint(1, "base", "arm"), TopoJoint(2, "loose", "arm")>>) :
          vb \in VisualLists, va \in VisualLists }

InitLoad ==
    /\ doc \in LoadDocs
    /\ parseOptions = NoParseOptions
    /\ entry = "loadRobot"
    /\ loads = <<>>
    /\ options = NoOptions
    /\ model = NoModel
    /\ phase = "input"
    /\ nodes = <<>>
    /\ robot = EmptyRobot(DefaultOptions)
    /\ stack = <<>>
    /\ error = "none"
    /\ requests = <<>>
    /\ lastCall = NoCall
    /\ markers = <<>>
    /\ second = NoTree

NextLoad ==
    \/ Parse
    \/ BuildStart
    \/ BuildJoint
    \/ BuildReturn
    \/ IssueLoads
    \/ \E i \in 1..MaxLoads : LoadSuccess(i)
    \/ \E i \in 1..MaxLoads : LoadFailure(i)
    \/ Resolve

\* every issued load calls one of its callbacks, and the continuation of
\* the await is run once Promise.all is fulfilled
FairLoad ==
    /\ \A i \in 1..MaxLoads : WF_vars(LoadFailure(i) \/ LoadSuccess(i))
    /\ WF_vars(Resolve)

\* parse, then loadRobot, over the loading family
SpecLoad == InitLoad /\ [][NextLoad]_vars /\ FairLoad

----------------------------------------------------------------------------
(* Documents of the pose family: base -> j1 -> arm, with every roll, pitch *)
(* and yaw for the joint's origin and for the origin of base's mesh visual *)

Turns == 0..MaxTurn

PoseDoc(jr, vr) ==
    RobotDoc(<<>>,
             <<[LinkEl("base") EXCEPT
                   !.visuals = <<Placed(<<1, 0, 0>>, vr, MeshEl(<<"a.stl">>, NoAttr))>>],
               LinkEl("arm")>>,
             <<JointEl("j1", "revolute", "base", "arm",
                       [xyz |-> Vec(0, 1, 0), rpy |-> RPY(jr[1], jr[2], jr[3])],
                       FALSE, ZeroVec, FALSE, NoLimitAttrs)>>)

PoseDocs == { PoseDoc(jr, vr) : jr \in Turns \X Turns \X Turns, vr \in Turns \X Turns \X Turns }

InitPose ==
    /\ doc \in PoseDocs
    /\ parseOptions = NoParseOptions
    /\ entry = "loadRobot"
    /\ loads = <<>>
    /\ options = NoOptions
    /\ model = NoModel
    /\ phase = "input"
    /\ nodes = <<>>
    /\ robot = EmptyRobot(DefaultOptions)
    /\ stack = <<>>
    /\ error = "none"
    /\ requests = <<>>
    /\ lastCall = NoCall
    /\ markers = <<>>
    /\ second = NoTree

NextPose ==
    \/ Parse
    \/ BuildStart
    \/ BuildJoint
    \/ BuildReturn
    \/ IssueLoads
    \/ LoadSuccess(1)
    \/ LoadFailure(1)
    \/ Resolve

\* parse, then loadRobot, over the pose family
SpecPose == InitPose /\ [][NextPose]_vars

----------------------------------------------------------------------------
(* Vocabulary of the claims *)

Parsed == phase # "input"
Built == phase = "built"

LinkNameAt(i) == model.links[i].name
IsChildName(name) == \E j \in 1..Len(model.joints) : model.joints[j].child = name

\* positions, in model.links, of the links that are no joint's child
RootCandidates == {i \in 1..Len(model.links) : ~IsChildName(LinkNameAt(i))}

JointNodes == {n \in 1..Len(nodes) : nodes[n].kind = "joint"}
LinkNodes == {n \in 1..Len(nodes) : nodes[n].kind = "link"}

\* the rotation of a pose, roll about X, then pitch about Y, then yaw about Z,
\* all about the fixed axes
OriginRotation(origin) ==
    MatMul(RotZ(origin.rpy.y), MatMul(RotY(origin.rpy.p), RotX(origin.rpy.r)))

----------------------------------------------------------------------------
(* C1: after parseURDF, rootLink is the first link, in model.links order   *)
(* (which is document order), that is no joint's child; it is unset when   *)
(* every link is some joint's child.                                       *)

\* C1: rootLink is the first non-child link in model.links and document order, unset if there is none
C1_RootIsFirstNonChild ==
    Parsed =>
        /\ RootCandidates = {} => model.rootLink = <<>>
        /\ \A i \in RootCandidates :
               (\A k \in RootCandidates : i <= k) =>
                   /\ model.rootLink = <<LinkNameAt(i)>>
                   /\ \E d \in 1..Len(doc.links) :
                          /\ doc.links[d].name = LinkNameAt(i)
                          /\ \A k \in 1..(d - 1) : IsChildName(doc.links[k].name)

\* several links are no joint's child and the root is not the first link of the document
C1_Witness ==
    /\ Parsed
    /\ Cardinality(RootCandidates) >= 2
    /\ model.rootLink # <<>>
    /\ model.rootLink[1] # doc.links[1].name
    /\ model.rootLink[1] = "arm"

----------------------------------------------------------------------------
(* C2: build terminates for every finite model: no chain of nested         *)
(* buildLink calls grows until the call stack is exhausted.                *)

\* C2: build never exhausts the call stack
C2_BuildTerminates == phase # "overflow" /\ error # "RangeError"

----------------------------------------------------------------------------
(* C3: for a well-formed model the built tree mirrors the model: one link  *)
(* node per link, one joint node per joint, tree.links and tree.joints     *)
(* keyed by exactly the model's names, the root link's node directly under *)
(* the tree root, each joint node under its parent link's node, each       *)
(* non-root link's node under the node of the joint whose child it is.     *)

JointsInto(name) == {j \in 1..Len(model.joints) : model.joints[j].child = name}

\* the well-formedness the claim spells out
WellFormed ==
    /\ \A j \in 1..Len(model.joints) :
           {model.joints[j].parent, model.joints[j].child} \subseteq Keys(model.links)
    /\ Cardinality(RootCandidates) = 1
    /\ \A i \in 1..Len(model.links) :
           i \notin RootCandidates => Cardinality(JointsInto(LinkNameAt(i))) = 1

RECURSIVE ReachableIn(_, _)
ReachableIn(k, from) ==
    IF k = 0 THEN from
    ELSE ReachableIn(k - 1,
             from \cup {model.joints[j].child :
                           j \in {x \in 1..Len(model.joints) : model.joints[x].parent \in from}})

\* the links reachable from the root link along joints
ReachableLinks ==
    IF model.rootLink = <<>> THEN {}
    ELSE ReachableIn(Len(model.links), {model.rootLink[1]})

Connected == Keys(model.links) \subseteq ReachableLinks

TreeMirrorsModel ==
    /\ Cardinality(LinkNodes) = Len(model.links)
    /\ Cardinality(JointNodes) = Len(model.joints)
    /\ DOMAIN robot.links = Keys(model.links)
    /\ DOMAIN robot.joints = Keys(model.joints)
    /\ \A i \in 1..Len(model.links) :
           /\ robot.links[LinkNameAt(i)] \in LinkNodes
           /\ nodes[robot.links[LinkNameAt(i)]].name = LinkNameAt(i)
    /\ nodes[robot.links[model.rootLink[1]]].parent = 0
    /\ \A j \in 1..Len(model.joints) :
           LET jd == model.joints[j]
           IN  /\ robot.joints[jd.name] \in JointNodes
               /\ nodes[robot.joints[jd.name]].name = jd.name
               /\ nodes[robot.joints[jd.name]].parent = robot.links[jd.parent]
               /\ nodes[robot.links[jd.child]].parent = robot.joints[jd.name]

\* C3 as stated
C3_Original == (Built /\ WellFormed) => TreeMirrorsModel

\* C3 as amended: the model's links must also all be reachable from the root
C3_TreeMirrorsModel == (Built /\ WellFormed /\ Connected) => TreeMirrorsModel

\* a built chain base -> j1 -> arm -> j2 -> tip
C3_Witness ==
    /\ Built /\ WellFormed /\ Connected
    /\ Len(model.links) = 3 /\ Len(model.joints) = 2
    /\ nodes[robot.links["tip"]].parent = robot.joints["j2"]
    /\ nodes[robot.joints["j2"]].parent = robot.links["arm"]
    /\ nodes[robot.links["arm"]].parent = robot.joints["j1"]

----------------------------------------------------------------------------
(* Joint nodes, their declared limits and the value last requested *)

TypeOf(n) == nodes[n].data.type
HasLower(n) == nodes[n].data.hasLimits /\ nodes[n].data.limits.hasLower
HasUpper(n) == nodes[n].data.hasLimits /\ nodes[n].data.limits.hasUpper
Lower(n) == nodes[n].data.limits.lower
Upper(n) == nodes[n].data.limits.upper

\* setJointValue has been called on node n, last with value v
LastRequest(n, v) == Built /\ n \in JointNodes /\ requests[n].last = <<v>>

----------------------------------------------------------------------------
(* C4: setJointValue(v) on a revolute joint with declared limits stores    *)
(* lower when v < lower, upper when v > upper, v when lower <= v <= upper, *)
(* each bound applying only if declared; no error is raised.               *)

StoresClamped(n, v) ==
    /\ (HasLower(n) /\ v < Lower(n)) => nodes[n].jointValue = Lower(n)
    /\ (HasUpper(n) /\ v > Upper(n)) => nodes[n].jointValue = Upper(n)
    /\ ((HasLower(n) => Lower(n) <= v) /\ (HasUpper(n) => v <= Upper(n)))
           => nodes[n].jointValue = v

InvertedLimits(n) == HasLower(n) /\ HasUpper(n) /\ Lower(n) > Upper(n)

\* C4 as stated
C4_Original ==
    \A n \in JointNodes, v \in Values :
        (LastRequest(n, v) /\ TypeOf(n) = "revolute" /\ nodes[n].data.hasLimits)
            => StoresClamped(n, v) /\ error = "none"

\* C4 as amended: as stated when the declared bounds are not inverted; with
\* lower > upper the upper check runs last and every request stores upper
C4_ClampsToLimits ==
    \A n \in JointNodes, v \in Values :
        (LastRequest(n, v) /\ TypeOf(n) = "revolute" /\ nodes[n].data.hasLimits)
            => /\ error = "none"
               /\ IF InvertedLimits(n)
                  THEN nodes[n].jointValue = Upper(n)
                  ELSE StoresClamped(n, v)

\* a revolute joint with limits [-1, 1] asked for 2 holds 1
C4_Witness ==
    \E n \in JointNodes :
        /\ LastRequest(n, 2) /\ TypeOf(n) = "revolute"
        /\ HasLower(n) /\ HasUpper(n) /\ Lower(n) = -1 /\ Upper(n) = 1
        /\ nodes[n].jointValue = 1

----------------------------------------------------------------------------
(* C5: in every state of a built tree, from the state right after build    *)
(* on, every joint's current value lies within its declared limits.        *)

\* C5: every joint value of a built tree is within its declared limits
C5_ValueWithinLimits ==
    Built =>
        \A n \in JointNodes :
            /\ HasLower(n) => nodes[n].jointValue >= Lower(n)
            /\ HasUpper(n) => nodes[n].jointValue <= Upper(n)

----------------------------------------------------------------------------
(* C6: a continuous joint has no limits: setJointValue(v) leaves the       *)
(* effective value equal to v, whatever limit element was declared.        *)

\* C6: a continuous joint stores the requested value unchanged
C6_ContinuousUnclamped ==
    \A n \in JointNodes, v \in Values :
        (LastRequest(n, v) /\ TypeOf(n) = "continuous") => nodes[n].jointValue = v

----------------------------------------------------------------------------
(* C7: for a fixed, floating or planar joint every setJointValue call      *)
(* completes without error and the node's local position and orientation   *)
(* stay equal to the origin pose, after any sequence of calls.             *)

Immovable == {"fixed", "floating", "planar"}

\* C7: fixed, floating and planar joint nodes always hold their origin pose
C7_ImmovableKeepsOrigin ==
    Built =>
        \A n \in JointNodes :
            TypeOf(n) \in Immovable =>
                /\ nodes[n].position = nodes[n].data.origin.xyz
                /\ nodes[n].quaternion = OriginRotation(nodes[n].data.origin)
                /\ error = "none"

\* a fixed joint with a rotated, displaced origin, set twice, last to a nonzero value
C7_Witness ==
    \E n \in JointNodes :
        /\ Built /\ TypeOf(n) = "fixed"
        /\ requests[n].again /\ requests[n].last # <<0>>
        /\ nodes[n].jointValue # 0
        /\ nodes[n].data.origin.xyz # ZeroVec
        /\ nodes[n].data.origin.rpy # ZeroRPY

----------------------------------------------------------------------------
(* C8: joint-value setting is history-independent: after any sequence of   *)
(* setJointValue calls a node is in the state one call with the last value *)
(* produces on the freshly built node.                                     *)

AsBuilt(n) == newJointObject(nodes[n].data, nodes[n].parent)

\* C8: a node is as one call with the last requested value leaves the freshly built node
C8_LastValueWins ==
    Built =>
        \A n \in JointNodes :
            IF requests[n].last = <<>>
            THEN nodes[n] = AsBuilt(n)
            ELSE nodes[n] = setJointValue(AsBuilt(n), requests[n].last[1])

\* a prismatic and a revolute joint, each set more than once and moved off its origin
C8_Witness ==
    /\ \E n \in JointNodes :
           /\ Built /\ TypeOf(n) = "prismatic" /\ requests[n].again
           /\ nodes[n].position # nodes[n].data.origin.xyz
    /\ \E n \in JointNodes :
           /\ Built /\ TypeOf(n) = "revolute" /\ requests[n].again
           /\ nodes[n].quaternion # nodes[n].originQuaternion

----------------------------------------------------------------------------
(* C9: setJointValues(mapping) applies setJointValue(value) to exactly the *)
(* joint nodes whose name is a key of the mapping and of tree.joints; a    *)
(* key naming no joint raises no error, changes no node and does not keep  *)
(* the other entries from being applied.                                   *)

\* the value the mapping gives the joint registered as node n, if any
EntriesFor(values, n) ==
    {i \in 1..Len(values) :
        values[i].name \in DOMAIN robot.joints /\ robot.joints[values[i].name] = n}

BulkApplied(values) ==
    /\ error' = "none"
    /\ robot' = robot
    /\ Len(nodes') = Len(nodes)
    /\ \A n \in 1..Len(nodes) :
           IF EntriesFor(values, n) = {}
           THEN nodes'[n] = nodes[n]
           ELSE \A i \in EntriesFor(values, n) :
                    nodes'[n] = setJointValue(nodes[n], values[i].value)

\* C9: every setJointValues step applies each known entry and nothing else
C9_BulkSkipsUnknown ==
    [][\A values \in Mappings : SetJointValues(values) => BulkApplied(values)]_vars

\* the latest call was a bulk call that ignored one key and reached a joint,
\* which now holds the clamped value of its entry
C9_Witness ==
    /\ Built
    /\ lastCall.op = "setJointValues"
    /\ lastCall.ignored = {"nope"}
    /\ lastCall.applied = {"j2"}
    /\ requests[robot.joints["j2"]].last = <<BulkValue("j2")>>
    /\ nodes[robot.joints["j2"]].jointValue = -1
    /\ requests[robot.joints["j1"]].last = <<>>

----------------------------------------------------------------------------
(* C10: for a prismatic joint, after setJointValue(v) the local            *)
(* translation is the origin translation plus the effective value times    *)
(* the joint axis rotated by the origin rotation into the parent frame,    *)
(* and the orientation is the origin rotation.                             *)

\* C10: a prismatic node sits at origin + value * (origin rotation applied to the axis)
C10_PrismaticAlongOriginFrameAxis ==
    \A n \in JointNodes, v \in Values :
        (LastRequest(n, v) /\ TypeOf(n) = "prismatic") =>
            /\ nodes[n].position =
                   VecAdd(nodes[n].data.origin.xyz,
                          VecScale(MatVec(OriginRotation(nodes[n].data.origin), nodes[n].axis),
                                   nodes[n].jointValue))
            /\ nodes[n].quaternion = OriginRotation(nodes[n].data.origin)


----------------------------------------------------------------------------
(* C11: for a revolute or continuous joint, after setJointValue(v) the     *)
(* local orientation is the origin rotation composed on the right with the *)
(* rotation by the effective value about the joint axis, and the local     *)
(* translation is the origin translation.                                  *)

Turning == {"revolute", "continuous"}

\* the rotation by the node's current value about its axis (no rotation
\* when the axis is the zero vector)
AxisRotation(n) == setFromAxisAngle(nodes[n].axis, nodes[n].jointValue)

\* twice the rotation block of the local matrix three.js composes from node
\* n's quaternion q: I + |q|^2 * (R - I), R the rotation q points along; it
\* is twice R exactly when q has unit length or R is the identity
MatScale(A, k) == <<VecScale(A[1], k), VecScale(A[2], k), VecScale(A[3], k)>>
MatAdd(A, B) == <<VecAdd(A[1], B[1]), VecAdd(A[2], B[2]), VecAdd(A[3], B[3])>>
ComposedTwice(n) ==
    MatAdd(MatScale(Identity3, 2 - nodes[n].twiceLengthSq),
           MatScale(nodes[n].quaternion, nodes[n].twiceLengthSq))

\* C11: a revolute or continuous node is oriented origin * axisRotation and sits at its origin translation
C11_OriginThenAxisRotation ==
    \A n \in JointNodes, v \in Values :
        (LastRequest(n, v) /\ TypeOf(n) \in Turning) =>
            /\ ComposedTwice(n) =
                   MatScale(MatMul(OriginRotation(nodes[n].data.origin),
                                   AxisRotation(n)), 2)
            /\ nodes[n].position = nodes[n].data.origin.xyz


----------------------------------------------------------------------------
(* C12: in a chain root -> joint1 -> link1 -> joint2 -> link2 whose joint  *)
(* origins have zero rotation, joint2's node sits, in the tree root's      *)
(* frame, at the sum of the translations met from the root down.           *)

\* Object3D composition: the orientation and position of node n in the
\* frame of the tree root (the root's own rotation not included)
RECURSIVE RotationInRoot(_)
RotationInRoot(n) ==
    IF nodes[n].parent = 0 THEN nodes[n].quaternion
    ELSE MatMul(RotationInRoot(nodes[n].parent), nodes[n].quaternion)

RECURSIVE PositionInRoot(_)
PositionInRoot(n) ==
    IF nodes[n].parent = 0 THEN nodes[n].position
    ELSE VecAdd(PositionInRoot(nodes[n].parent),
                MatVec(RotationInRoot(nodes[n].parent), nodes[n].position))

\* a built two-joint chain with unrotated origins
IsChain ==
    /\ Built
    /\ Len(model.links) = 3 /\ Len(model.joints) = 2
    /\ model.rootLink = <<model.joints[1].parent>>
    /\ model.joints[2].parent = model.joints[1].child
    /\ model.joints[2].child \notin {model.joints[1].parent, model.joints[1].child}
    /\ model.joints[1].child # model.joints[1].parent
    /\ model.joints[1].origin.rpy = ZeroRPY
    /\ model.joints[2].origin.rpy = ZeroRPY

Joint1 == robot.joints[model.joints[1].name]
Joint2 == robot.joints[model.joints[2].name]

\* what the current value of joint node n contributes: a displacement
\* along the axis for a prismatic joint, a rotation about it for a
\* revolute or continuous one
Slide(n) ==
    IF TypeOf(n) = "prismatic" THEN VecScale(nodes[n].axis, nodes[n].jointValue)
    ELSE ZeroVec
Turn(n) == IF TypeOf(n) \in Turning THEN AxisRotation(n) ELSE Identity3

\* C12 as stated
C12_Original ==
    IsChain =>
        PositionInRoot(Joint2) =
            VecAdd(VecAdd(model.joints[1].origin.xyz, model.joints[2].origin.xyz),
                   Slide(Joint1))

\* C12 as amended: joint2's own displacement is added when it is prismatic,
\* and what lies below joint1 is turned by joint1's rotation when joint1 is
\* revolute or continuous
C12_ChainPosition ==
    IsChain =>
        PositionInRoot(Joint2) =
            VecAdd(VecAdd(model.joints[1].origin.xyz, Slide(Joint1)),
                   MatVec(Turn(Joint1),
                          VecAdd(model.joints[2].origin.xyz, Slide(Joint2))))

\* a chain whose first joint is prismatic and has been moved: joint2 sits at
\* origin1 + origin2 + value1 * axis1
C12_Witness ==
    /\ IsChain
    /\ TypeOf(Joint1) = "prismatic"
    /\ requests[Joint1].last # <<>> /\ nodes[Joint1].jointValue = 2
    /\ requests[Joint2].last # <<>>
    /\ model.joints[1].origin.xyz = Vec(1, 0, 0)
    /\ model.joints[2].origin.xyz = Vec(0, 2, 0)
    /\ nodes[Joint1].axis = Vec(1, 0, 0)
    /\ Slide(Joint2) = ZeroVec
    /\ PositionInRoot(Joint2) = Vec(3, 2, 0)


----------------------------------------------------------------------------
(* C13: the Y-up conversion is a root-only basis change: the tree root is  *)
(* turned -90 degrees about X when convertToYUp is true or omitted and not *)
(* at all when it is false; the local transform of every link and joint    *)
(* node is the same in both cases, after build and after any sequence of   *)
(* joint-value calls, and no such call changes the root's rotation.        *)

YUp == ~options.hasConvertToYUp \/ options.convertToYUp

\* the joint of the model a joint node was built for
JointDataOf(n) ==
    model.joints[CHOOSE j \in 1..Len(model.joints) : model.joints[j].name = nodes[n].name]

\* the local transform of node n as the model and the values requested of
\* it determine it, the options playing no part
LocalTransform(n) ==
    IF nodes[n].kind = "link"
    THEN [position |-> ZeroVec, quaternion |-> Identity3, twiceLengthSq |-> 2]
    ELSE LET fresh == newJointObject(JointDataOf(n), nodes[n].parent)
             now == IF requests[n].last = <<>> THEN fresh
                    ELSE setJointValue(fresh, requests[n].last[1])
         IN  [position |-> now.position, quaternion |-> now.quaternion,
              twiceLengthSq |-> now.twiceLengthSq]

\* C13: the root carries the Y-up rotation exactly as convertToYUp says, before and after joint-value calls, and no node's local transform depends on it
C13_YUpIsRootOnly ==
    phase \in {"building", "built"} =>
        /\ robot.rotationX = IF YUp THEN -1 ELSE 0
        /\ \A n \in 1..Len(nodes) :
               [position |-> nodes[n].position, quaternion |-> nodes[n].quaternion,
                twiceLengthSq |-> nodes[n].twiceLengthSq]
                   = LocalTransform(n)

\* a tree built with convertToYUp false, its root unturned, after a bulk
\* call that turned one joint and a further call that slid another
C13_Witness ==
    /\ Built
    /\ options.hasConvertToYUp /\ ~options.convertToYUp
    /\ robot.rotationX = 0
    /\ lastCall.op = "setJointValues"
    /\ \E n \in JointNodes :
           /\ TypeOf(n) = "revolute" /\ requests[n].again
           /\ nodes[n].quaternion # nodes[n].originQuaternion
    /\ \E n \in JointNodes :
           /\ TypeOf(n) = "prismatic" /\ requests[n].last # <<>>
           /\ nodes[n].position # nodes[n].data.origin.xyz


----------------------------------------------------------------------------
(* The outcome of parseURDF *)

ParseEnded == phase \in {"parsed", "failed"}

\* parseURDF raised an exception and returned no model
ParseFailed == phase = "failed" /\ error # "none" /\ model = NoModel

Elements(list) == {list[i] : i \in 1..Len(list)}

----------------------------------------------------------------------------
(* C14: parseURDF fails, returning no model, whenever the document has no  *)
(* robot root, a link or joint has no name attribute, a joint has no type  *)
(* attribute, or a joint lacks a parent or child element or the link       *)
(* attribute of either, however many valid elements precede it.            *)

LacksRequired ==
    \/ ~doc.hasRobot
    \/ \E l \in Elements(doc.links) : ~l.hasName
    \/ \E j \in Elements(doc.joints) :
           \/ ~j.hasName
           \/ ~j.hasType
           \/ ~j.hasParent \/ ~j.hasChild
           \/ ~j.hasParentLink \/ ~j.hasChildLink

\* C14: a document lacking the root, a link or joint name, a joint type or a parent/child reference fails to parse and yields no model
C14_MissingRequiredFails == (ParseEnded /\ LacksRequired) => ParseFailed


----------------------------------------------------------------------------
(* C15: parseURDF fails, producing no model, when a geometry element holds *)
(* none of box, cylinder, sphere, mesh, capsule, or when an xyz, rpy,      *)
(* size, axis or scale attribute does not split into exactly 3 tokens, or  *)
(* an rgba attribute into exactly 4; with the expected count the attribute *)
(* is accepted.                                                            *)

SupportedShapes == {"box", "cylinder", "sphere", "mesh", "capsule"}

\* the <visual>, <collision> and <self_collision_checking> elements of the
\* document, and their <geometry> elements
Shapes ==
    UNION { Elements(l.visuals) \cup Elements(l.collisions)
                \cup (IF l.hasSelfCollision THEN {l.selfCollision} ELSE {}) :
            l \in Elements(doc.links) }
Geometries == {sh.geometry : sh \in {x \in Shapes : x.hasGeometry}}

\* the <origin> elements of the document
Origins ==
    {j.origin : j \in {x \in Elements(doc.joints) : x.hasOrigin}}
        \cup {sh.origin : sh \in {x \in Shapes : x.hasOrigin}}
        \cup {l.inertial.origin :
                 l \in {x \in Elements(doc.links) : x.hasInertial /\ x.inertial.hasOrigin}}

\* the attribute is written and does not hold exactly n tokens
Miscounted(attr, n) == attr.has /\ Len(attr.value) # n

UnsupportedGeometry == \E g \in Geometries : g.shapes \cap SupportedShapes = {}

MiscountedVector ==
    \/ \E o \in Origins : Miscounted(o.xyz, 3) \/ Miscounted(o.rpy, 3)
    \/ \E g \in Geometries : "box" \in g.shapes /\ Miscounted(g.size, 3)
    \/ \E g \in Geometries : "mesh" \in g.shapes /\ Miscounted(g.scale, 3)
    \/ \E j \in Elements(doc.joints) : j.hasAxis /\ Miscounted(j.axis, 3)
    \/ \E m \in Elements(doc.materials) : m.hasColor /\ Miscounted(m.rgba, 4)

VectorErrors ==
    {"Invalid vector3 format", "Invalid RPY format", "Invalid color format"}

\* C15: an unsupported geometry or a miscounted numeric vector makes parsing fail with no model, and a well-counted one is never rejected
C15_MalformedFails ==
    ParseEnded =>
        /\ (doc.hasRobot /\ (UnsupportedGeometry \/ MiscountedVector)) => ParseFailed
        /\ ~MiscountedVector => error \notin VectorErrors


----------------------------------------------------------------------------
(* C16: the listed failure conditions are the only ones: a document with a *)
(* robot root, names on all links and joints, a type and parent/child link *)
(* references on every joint, a supported shape in every geometry element  *)
(* and correct token counts in every numeric vector parses successfully,   *)
(* everything else being optional with defaults applied, including a       *)
(* material without a name and a visual or collision without a geometry.   *)

Named(el) == el.hasName /\ el.name # ""

MeetsListed ==
    /\ doc.hasRobot
    /\ \A l \in Elements(doc.links) : Named(l)
    /\ \A j \in Elements(doc.joints) :
           /\ Named(j)
           /\ j.hasType /\ j.type # ""
           /\ j.hasParent /\ j.hasParentLink /\ j.parent # ""
           /\ j.hasChild /\ j.hasChildLink /\ j.child # ""
    /\ ~UnsupportedGeometry
    /\ ~MiscountedVector

\* the defaults of the optional parts, in the model parseURDF returned
DefaultsApplied ==
    /\ \A i \in 1..Len(doc.joints) :
           LET j == model.joints[CHOOSE k \in 1..Len(model.joints) :
                                     model.joints[k].name = doc.joints[i].name]
           IN  /\ ~doc.joints[i].hasOrigin => j.origin = ZeroPose
               /\ (~doc.joints[i].hasAxis \/ ~doc.joints[i].axis.has)
                      => jointAxis(j) = Vec(0, 0, 1)
    /\ \A i \in 1..Len(doc.links) :
           LET l == model.links[CHOOSE k \in 1..Len(model.links) :
                                    model.links[k].name = doc.links[i].name]
           IN  (~doc.links[i].hasInertial \/ ~doc.links[i].inertial.hasMass)
                   => l.inertial.mass = 0

\* C16: a document meeting the listed requirements parses, with the defaults applied
C16_OnlyListedFailures ==
    (ParseEnded /\ MeetsListed) =>
        /\ phase = "parsed"
        /\ error = "none"
        /\ DefaultsApplied


----------------------------------------------------------------------------
(* Mesh filenames: as written in the document and as stored in the model *)

IsMeshDoc == doc \in MeshDocs
WrittenFilename == doc.links[1].visuals[1].geometry.filename.value
StoredFilename == model.links[1].visuals[1].geometry.filename

\* package://<id>/<rest>
IsPackageURI(f) == Len(f) >= 4 /\ f[1] = "package://" /\ f[2] # "/" /\ f[3] = "/"
PackageId(f) == f[2]
PackageRest(f) == SubSeq(f, 4, Len(f))

\* packageMap maps the package to a (non-empty) prefix
Mapped(id) ==
    /\ parseOptions.hasPackageMap
    /\ id \in DOMAIN parseOptions.packageMap
    /\ parseOptions.packageMap[id] # <<>>

----------------------------------------------------------------------------
(* C17: for a mesh filename package://<id>/<rest>, the resolved filename   *)
(* is exactly <prefix>/<rest> when packageMap maps <id> to a prefix, and   *)
(* the original URI unchanged, without failure, when it does not.          *)

\* C17: a mapped package URI resolves to exactly prefix/rest, an unmapped one is kept unchanged
C17_PackageResolution ==
    (ParseEnded /\ IsMeshDoc /\ IsPackageURI(WrittenFilename)) =>
        /\ phase = "parsed"
        /\ IF Mapped(PackageId(WrittenFilename))
           THEN /\ StoredFilename = parseOptions.packageMap[PackageId(WrittenFilename)]
                                        \o <<"/">> \o PackageRest(WrittenFilename)
                /\ "package://" \notin Elements(StoredFilename)
           ELSE StoredFilename = WrittenFilename

----------------------------------------------------------------------------
(* C18: workingPath is prepended, as <workingPath>/<filename>, exactly to  *)
(* the mesh filenames written neither as a package:// URI nor as an        *)
(* absolute path; a package:// filename never receives it, mapped or not,  *)
(* and an absolute filename is left unchanged.                             *)

IsPackage(f) == f # <<>> /\ f[1] = "package://"
IsAbsolute(f) == f # <<>> /\ f[1] = "/"

\* the stored filename begins with <workingPath>/
HasWorkingPath(f) ==
    /\ Len(f) > Len(parseOptions.workingPath)
    /\ SubSeq(f, 1, Len(parseOptions.workingPath) + 1) = parseOptions.workingPath \o <<"/">>

\* C18: with a workingPath, a non-empty relative filename gets workingPath/ in front, a package:// filename never does, an absolute one is unchanged
C18_WorkingPathOnlyForRelative ==
    (ParseEnded /\ IsMeshDoc /\ WrittenFilename # <<>> /\ parseOptions.workingPath # <<>>) =>
        /\ phase = "parsed"
        /\ (~IsPackage(WrittenFilename) /\ ~IsAbsolute(WrittenFilename))
               => StoredFilename = parseOptions.workingPath \o <<"/">> \o WrittenFilename
        /\ IsPackage(WrittenFilename) => ~HasWorkingPath(StoredFilename)
        /\ IsAbsolute(WrittenFilename) => StoredFilename = WrittenFilename


----------------------------------------------------------------------------
(* loadRobot: its loads and its promise *)

Resolved == phase = "loaded"

Pending(i) == loads[i].status = "pending"
Loaded(i) == loads[i].status = "loaded"
Failed(i) == loads[i].status = "failed"

MeshNodes == {n \in 1..Len(nodes) : nodes[n].kind = "mesh"}

\* every mesh-type visual of the model: (link, position in the link's visuals)
AllMeshVisuals ==
    UNION { { <<model.links[i].name, k>> :
                k \in {x \in 1..Len(model.links[i].visuals) :
                          model.links[i].visuals[x].geometry.type = "mesh"} } :
            i \in 1..Len(model.links) }

\* the mesh visuals a load is issued for: those with a filename, on the links
\* that have a node in the tree
MeshVisuals ==
    { mv \in AllMeshVisuals :
        /\ mv[1] \in DOMAIN robot.links
        /\ visualOf(model, [link |-> mv[1], visual |-> mv[2]]).geometry.filename # <<>> }

\* the tree buildRobotStructure returned, complete
TreeBuilt == stack = <<>> /\ DOMAIN robot.links = {"base", "arm"} /\ LinkNodes # {}

----------------------------------------------------------------------------
(* C19: loadRobot's promise resolves only after the load of every mesh-   *)
(* type visual of the model has ended, by its success or its failure       *)
(* callback, never while one is pending; and if every issued load ends, it *)
(* does resolve, with the built tree.                                      *)

\* the visuals that loads were issued for
LoadedVisuals == {<<loads[i].link, loads[i].visual>> : i \in 1..Len(loads)}

\* no load is pending, and there is exactly one load for each of `visuals`
LoadsEndedFor(visuals) ==
    /\ \A i \in 1..Len(loads) : ~Pending(i)
    /\ LoadedVisuals = visuals
    /\ Len(loads) = Cardinality(visuals)

\* C19 as stated: the promise is resolved only once the load of every mesh-type visual of the model has ended, and once the loads are issued it does resolve with the built tree
C19_Original ==
    /\ [](Resolved => LoadsEndedFor(AllMeshVisuals))
    /\ (phase = "loading") ~> (Resolved /\ TreeBuilt)

\* C19 as amended: the loads awaited are those of the mesh visuals that have a filename and whose link has a node in the tree; the promise is resolved only once each of them has ended, and once the loads are issued it does resolve with the built tree
C19_ResolvesAfterAllLoads ==
    /\ [](Resolved => LoadsEndedFor(MeshVisuals))
    /\ (phase = "loading") ~> (Resolved /\ TreeBuilt)

\* resolved after four loads, the first of which ended last in failure (the
\* meshes of the later ones are attached), while the mesh visuals of a link
\* without a node got no load
C19_Witness ==
    /\ Resolved
    /\ Len(loads) = 4
    /\ Failed(1) /\ Loaded(2) /\ Loaded(3) /\ Failed(4)
    /\ loads[3].mesh < loads[2].mesh
    /\ \E mv \in AllMeshVisuals \ LoadedVisuals : mv[1] \notin DOMAIN robot.links

----------------------------------------------------------------------------
(* C20: a failing mesh load never makes loadRobot reject or abort: for any *)
(* subset of failing loads the promise still resolves with the tree, every *)
(* mesh whose load succeeded is attached, none is for a failed load.       *)

\* the mesh of load i hangs under the node of its link, posed at the visual's origin
Attached(i) ==
    LET visual == visualOf(model, loads[i])
    IN  /\ loads[i].mesh \in MeshNodes
        /\ nodes[loads[i].mesh].parent = robot.links[loads[i].link]
        /\ nodes[loads[i].mesh].position = visual.origin.xyz
        /\ nodes[loads[i].mesh].quaternion = OriginRotation(visual.origin)

MeshesMatchLoads ==
    /\ \A i \in 1..Len(loads) : Loaded(i) => Attached(i)
    /\ \A i \in 1..Len(loads) : ~Loaded(i) => loads[i].mesh = 0
    /\ MeshNodes = {loads[i].mesh : i \in {x \in 1..Len(loads) : Loaded(x)}}
    /\ Cardinality(MeshNodes) = Cardinality({i \in 1..Len(loads) : Loaded(i)})

SomeLoadFailed == \E i \in 1..Len(loads) : Failed(i)

\* C20: no failure callback raises an error or ends loadRobot, the meshes attached are exactly those of the loads that succeeded, and after any failure the promise still resolves with the tree
C20_FailedLoadsAreSkipped ==
    /\ [](error = "none" /\ phase \notin {"failed", "overflow"} /\ MeshesMatchLoads)
    /\ SomeLoadFailed ~> (Resolved /\ TreeBuilt /\ SomeLoadFailed)

\* resolved with every load failed and no mesh in the tree
C20_Witness ==
    /\ Resolved /\ TreeBuilt
    /\ Len(loads) = 3
    /\ \A i \in 1..Len(loads) : Failed(i)
    /\ MeshNodes = {}

----------------------------------------------------------------------------
(* C21: when the model has no root link (every link is some joint's child, *)
(* or there are no links) build creates no link or joint node, tree.links  *)
(* and tree.joints are empty, no error is raised, and setJointValues with  *)
(* any mapping changes nothing.                                            *)

Rootless == phase \notin {"input", "failed"} /\ model.rootLink = <<>>

EmptyTree ==
    /\ nodes = <<>>
    /\ robot.links = <<>>
    /\ robot.joints = <<>>

\* C21: a model without root link is built to an empty tree without error, and every setJointValues call on it leaves the tree as it is
C21_RootlessBuildsEmptyTree ==
    /\ [](Rootless => (EmptyTree /\ error = "none" /\ phase \in {"parsed", "built"}))
    /\ [][\A values \in Mappings :
              (Rootless /\ SetJointValues(values)) =>
                  (nodes' = nodes /\ robot' = robot /\ error' = "none")]_vars

\* a model with links and joints but no root, built, after a bulk call that
\* named one of the model's joints and found no node for it
C21_Witness ==
    /\ Rootless /\ Built
    /\ Len(model.links) = 2
    /\ "j1" \in Keys(model.joints)
    /\ lastCall.op = "setJointValues"
    /\ "j1" \in lastCall.ignored
    /\ lastCall.applied = {}

----------------------------------------------------------------------------
(* C22: setJointValue on one joint node changes only that node's stored    *)
(* value and local transform; every other joint node (a joint that         *)
(* declares a mimic relation to it included), every link node and the      *)
(* membership of tree.links and tree.joints stay as they were.             *)

\* node n keeps everything but its stored value and local transform
SameButValueAndTransform(before, after) ==
    [after EXCEPT !.jointValue = before.jointValue,
                  !.position = before.position,
                  !.quaternion = before.quaternion,
                  !.twiceLengthSq = before.twiceLengthSq] = before

OnlyNodeChanged(n) ==
    /\ robot' = robot
    /\ Len(nodes') = Len(nodes)
    /\ SameButValueAndTransform(nodes[n], nodes'[n])
    /\ \A k \in 1..Len(nodes) : k # n => nodes'[k] = nodes[k]

\* the joint nodes that declare a mimic relation to the joint of node n
MimicsOf(n) ==
    {k \in JointNodes : nodes[k].data.hasMimic /\ nodes[k].data.mimic.joint = nodes[n].name}

\* a step that is the call setJointValue(value) on node n; the call it
\* records tells it from the other steps at once
CallOn(n, value) ==
    /\ lastCall'.op = "setJointValue"
    /\ lastCall'.applied = {nodes[n].name}
    /\ SetJointValue(n, value)

\* C22: every setJointValue step changes the stored value and local transform of the node it is called on and nothing else in the tree
C22_SetJointValueIsLocal ==
    [][\A n \in 1..Len(nodes), value \in Values :
           CallOn(n, value) => OnlyNodeChanged(n)]_vars

\* j1 was turned by a setJointValue call while j2, which mimics j1, is as built
C22_Witness ==
    /\ Built
    /\ lastCall.op = "setJointValue" /\ lastCall.applied = {"j1"}
    /\ \E n \in JointNodes :
           /\ nodes[n].name = "j1"
           /\ nodes[n].jointValue = 1
           /\ nodes[n].quaternion # nodes[n].originQuaternion
           /\ \E k \in MimicsOf(n) :
                  /\ requests[k].last = <<>>
                  /\ nodes[k] = newJointObject(nodes[k].data, nodes[k].parent)

----------------------------------------------------------------------------
(* C23: each build call yields a fresh tree and leaves the RobotModel      *)
(* unchanged: joint-value calls on one of two trees of a model leave the   *)
(* other tree as it was, and the model's joint origins, axes and limits    *)
(* are the same before and after build and after any joint-value calls.    *)

\* the nodes of the first tree as build left them, whatever was set since
FreshNodes ==
    [n \in 1..Len(nodes) |-> IF nodes[n].kind = "joint" THEN AsBuilt(n) ELSE nodes[n]]

\* a step in which the second build call is made
SecondBuilt == ~second.built /\ second'.built

FirstTreeSame == nodes' = nodes /\ markers' = markers /\ robot' = robot

\* the model is the one parseURDF returned for the document
ModelAsParsed == model = parseURDF(doc, parseOptions)

\* C23: the model stays as parsed, a second build returns the tree as built from the model whatever the first tree's joint values are, and a joint-value call on either tree leaves the other unchanged
C23_FreshTreeModelUnchanged ==
    /\ [](phase \notin {"input", "failed"} => ModelAsParsed)
    /\ [][SecondBuilt =>
              /\ FirstTreeSame
              /\ second'.nodes = FreshNodes
              /\ second'.robot = robot
              /\ second'.markers = markers]_vars
    /\ [][(second.built /\ ~FirstTreeSame) => second' = second]_vars
    /\ [][(second.built /\ second' # second) => FirstTreeSame]_vars

\* two trees of a chain whose joints hold different values in each, on a
\* model whose declared axis and limits are untouched
C23_Witness ==
    /\ Built /\ second.built
    /\ ModelAsParsed
    /\ Len(model.joints) = 2
    /\ nodes[robot.joints["j1"]].jointValue = 1
    /\ second.nodes[second.robot.joints["j1"]].jointValue = -1
    /\ nodes[robot.joints["j2"]].jointValue = 0
    /\ second.nodes[second.robot.joints["j2"]].jointValue = 1
    /\ requests[robot.joints["j1"]].again
    /\ second.nodes[second.robot.joints["j2"]] # nodes[robot.joints["j2"]]

----------------------------------------------------------------------------
(* C24: showDebug is the caller's choice at both entry points: buildRobot  *)
(* creates the debug markers (a sphere per link node, a line per joint)    *)
(* when showDebug is true or omitted and none when it is false; loadRobot  *)
(* creates none when it is false or omitted and creates them when true.    *)

\* the entry point has returned its tree (loadRobot's is handed out by Resolve)
Returned ==
    \/ entry = "buildRobot" /\ phase = "built"
    \/ entry = "loadRobot" /\ phase = "loaded"

\* what the caller asked for, the entry point's default standing in for an omitted option
DebugWanted ==
    IF entry = "buildRobot"
    THEN ~options.hasShowDebug \/ options.showDebug
    ELSE options.hasShowDebug /\ options.showDebug

Spheres == {k \in 1..Len(markers) : markers[k].kind = "sphere"}
Lines == {k \in 1..Len(markers) : markers[k].kind = "line"}

\* one sphere under each link node and one line for each joint node, under the joint's parent
AllMarkers ==
    /\ \A n \in LinkNodes : Cardinality({k \in Spheres : markers[k].parent = n}) = 1
    /\ \A n \in JointNodes :
           Cardinality({k \in Lines : /\ markers[k].parent = nodes[n].parent
                                      /\ markers[k].name = nodes[n].name}) = 1
    /\ Cardinality(Spheres) = Cardinality(LinkNodes)
    /\ Cardinality(Lines) = Cardinality(JointNodes)
    /\ Len(markers) = Cardinality(Spheres) + Cardinality(Lines)

\* C24: the returned tree carries all debug markers when the caller's showDebug (or the entry point's default) says so, and none otherwise
C24_ShowDebugIsCallersChoice ==
    Returned => IF DebugWanted THEN AllMarkers ELSE markers = <<>>

----------------------------------------------------------------------------
(* C25: every pose the builder converts (a joint's origin, a loaded mesh   *)
(* visual's origin) takes roll-pitch-yaw (r, p, y) as the extrinsic        *)
(* X-then-Y-then-Z rotation Rz(y) * Ry(p) * Rx(r), never as the intrinsic  *)
(* Rx(r) * Ry(p) * Rz(y); the two are said to differ whenever at least two *)
(* of r, p, y are non-zero.                                                *)

\* the intrinsic X-then-Y-then-Z reading of a pose's roll, pitch and yaw
IntrinsicRotation(origin) ==
    MatMul(MatMul(RotX(origin.rpy.r), RotY(origin.rpy.p)), RotZ(origin.rpy.y))

Angles(origin) == <<origin.rpy.r, origin.rpy.p, origin.rpy.y>>

\* at least two of roll, pitch, yaw are non-zero
TwoNonZero(origin) ==
    Cardinality({i \in 1..3 : Angles(origin)[i] # 0}) >= 2

\* at least two of roll, pitch, yaw are no whole number of turns
TwoTurned(origin) ==
    Cardinality({i \in 1..3 : Angles(origin)[i] % 4 # 0}) >= 2

\* at least two of roll, pitch, yaw are half turns
TwoHalfTurns(origin) ==
    Cardinality({i \in 1..3 : Angles(origin)[i] % 4 = 2}) >= 2

\* the poses the builder has converted so far, each with the rotation it gave
ConvertedPoses ==
    { [origin |-> nodes[n].data.origin, rotation |-> nodes[n].originQuaternion] :
          n \in JointNodes }
    \cup
    { [origin |-> visualOf(model, loads[i]).origin, rotation |-> nodes[loads[i].mesh].quaternion] :
          i \in {x \in 1..Len(loads) : loads[x].status = "loaded"} }

\* C25 as stated
C25_Original ==
    \A c \in ConvertedPoses :
        /\ c.rotation = OriginRotation(c.origin)
        /\ TwoNonZero(c.origin) => c.rotation # IntrinsicRotation(c.origin)

\* C25 as amended: every converted pose is the extrinsic rotation Rz(y) * Ry(p) * Rx(r); among quarter turns this differs from the intrinsic reading exactly when two angles are non-zero and fewer than two are half turns
C25_ExtrinsicRotation ==
    \A c \in ConvertedPoses :
        /\ c.rotation = OriginRotation(c.origin)
        /\ (TwoTurned(c.origin) /\ ~TwoHalfTurns(c.origin))
               <=> c.rotation # IntrinsicRotation(c.origin)

\* a joint origin on which the two readings differ and a loaded mesh whose
\* origin has two half turns, on which they agree
C25_Witness ==
    /\ phase = "loaded"
    /\ \E c \in ConvertedPoses :
           /\ Angles(c.origin) = <<1, 1, 0>>
           /\ c.rotation # IntrinsicRotation(c.origin)
    /\ \E i \in 1..Len(loads) :
           /\ loads[i].status = "loaded"
           /\ Angles(visualOf(model, loads[i]).origin) = <<2, 0, 2>>
           /\ nodes[loads[i].mesh].quaternion = IntrinsicRotation(visualOf(model, loads[i]).origin)

----------------------------------------------------------------------------
(* C26: during build each link is built at most once and first arrival     *)
(* wins: a link reachable from the root by more than one joint path gets   *)
(* exactly one node, tree.links maps its name to the node created on the   *)
(* first path reached in depth-first order, its outgoing joints get one    *)
(* joint node each, and later paths to it create nothing.                  *)

LinkNodesOf(name) == {n \in LinkNodes : nodes[n].name = name}
JointNodesOf(name) == {n \in JointNodes : nodes[n].name = name}

\* C26: every link has at most one node, the one tree.links registers is the first created, and every joint has at most one node
C26_EachLinkBuiltOnce ==
    phase \in {"building", "built"} =>
        /\ \A name \in Keys(model.links) :
               /\ Cardinality(LinkNodesOf(name)) <= 1
               /\ name \in DOMAIN robot.links =>
                      \A n \in LinkNodesOf(name) : robot.links[name] <= n
        /\ \A name \in Keys(model.joints) : Cardinality(JointNodesOf(name)) <= 1

----------------------------------------------------------------------------
(* C27: in whatever order the mesh-load callbacks of loadRobot complete,   *)
(* each successfully loaded mesh is attached exactly once under the node   *)
(* tree.links registers for the link owning the visual; attaching changes  *)
(* neither the keys of tree.links / tree.joints nor the stored value or    *)
(* local transform of any joint or link node; and the final set of         *)
(* attached meshes is the same for every completion order.                 *)

\* the meshes hanging in the tree, as objects without their creation rank
AttachedMeshes == {nodes[n] : n \in MeshNodes}

\* the meshes the loads that ended in success call for, whatever their order
MeshesOfLoaded ==
    {newMesh(visualOf(model, loads[i]), loads[i]) : i \in {x \in 1..Len(loads) : Loaded(x)}}

AttachedOnce(i) ==
    /\ Cardinality({n \in MeshNodes : nodes[n] = newMesh(visualOf(model, loads[i]), loads[i])}) = 1
    /\ nodes[loads[i].mesh].parent = robot.links[loads[i].link]
    /\ loads[i].mesh \in MeshNodes

\* a callback leaves the maps and every link and joint node as they were
KinematicTreeSame ==
    /\ robot' = robot
    /\ Len(nodes') >= Len(nodes)
    /\ \A n \in 1..Len(nodes) : nodes'[n] = nodes[n]
    /\ \A n \in (Len(nodes) + 1)..Len(nodes') : nodes'[n].kind = "mesh"

\* C27: every loaded mesh hangs exactly once under its link's registered node, the attached meshes are determined by which loads succeeded and not by their order, and no callback touches the maps or a link or joint node
C27_AttachmentIsOrderFree ==
    /\ [](phase \in {"loading", "loaded"} =>
             /\ \A i \in 1..Len(loads) : Loaded(i) => AttachedOnce(i)
             /\ AttachedMeshes = MeshesOfLoaded
             /\ Cardinality(MeshNodes) = Cardinality({i \in 1..Len(loads) : Loaded(i)}))
    /\ [][\A i \in 1..MaxLoads :
              (LoadSuccess(i) \/ LoadFailure(i)) => KinematicTreeSame]_vars

\* resolved with the meshes of the first and the second load attached in the
\* reverse of their issue order, and a later load failed
C27_Witness ==
    /\ Resolved /\ TreeBuilt
    /\ Len(loads) >= 3
    /\ Loaded(1) /\ Loaded(2) /\ Failed(3)
    /\ loads[2].mesh < loads[1].mesh
    /\ loads[1].link # loads[2].link

----------------------------------------------------------------------------
(* C28: when two material, link or joint elements share a name the parsed  *)
(* mapping holds one entry for the name, with the value of the later       *)
(* element; the overwritten joint's child is not counted as a child in     *)
(* root-link inference; an overwritten link keeps the iteration position   *)
(* of its first occurrence.                                                *)

\* positions of the first and of the last element of a list with a given name
FirstAt(list, name) ==
    CHOOSE i \in 1..Len(list) :
        list[i].name = name /\ \A k \in 1..(i - 1) : list[k].name # name
LastAt(list, name) ==
    CHOOSE i \in 1..Len(list) :
        list[i].name = name /\ \A k \in (i + 1)..Len(list) : list[k].name # name

NamesIn(list) == {list[i].name : i \in 1..Len(list)}

\* the mapping has one entry per name of the list, holding `parsed` of the last element so named
LaterWins(map, list, parsed(_)) ==
    /\ Keys(map) = NamesIn(list)
    /\ Len(map) = Cardinality(NamesIn(list))
    /\ \A i \in 1..Len(map) : map[i] = parsed(list[LastAt(list, map[i].name)])

\* the entries stand in the order in which their names first occur in the list
FirstPositionKept(map, list) ==
    \A i, k \in 1..Len(map) :
        i < k => FirstAt(list, map[i].name) < FirstAt(list, map[k].name)

\* the material, link and joint elements of the document that have a name
NamedMaterials == SelectSeq(doc.materials, Named)
NamedLinks == SelectSeq(doc.links, Named)
NamedJoints == SelectSeq(doc.joints, Named)

\* the children named by the joint elements that were not overwritten
SurvivingChildren ==
    {NamedJoints[i].child : i \in {x \in 1..Len(NamedJoints) :
                                      x = LastAt(NamedJoints, NamedJoints[x].name)}}

\* the root is the first link, by first occurrence, that no surviving joint names as child
RootFromSurvivors ==
    LET roots == {i \in 1..Len(NamedLinks) :
                     /\ i = FirstAt(NamedLinks, NamedLinks[i].name)
                     /\ NamedLinks[i].name \notin SurvivingChildren}
    IN  IF roots = {} THEN model.rootLink = <<>>
        ELSE \E i \in roots : /\ \A k \in roots : i <= k
                              /\ model.rootLink = <<NamedLinks[i].name>>

ParseMaterialOf(el) == parseMaterial(el)
ParseLinkOf(el) == parseLink(el, parseOptions)
ParseJointOf(el) == parseJoint(el)

\* C28: each mapping holds one entry per name with the later element's value, links keep the position of their first occurrence, and the root is inferred from the surviving joints alone
C28_LaterDuplicateWins ==
    phase = "parsed" =>
        /\ LaterWins(model.materials, NamedMaterials, ParseMaterialOf)
        /\ LaterWins(model.links, NamedLinks, ParseLinkOf)
        /\ LaterWins(model.joints, NamedJoints, ParseJointOf)
        /\ FirstPositionKept(model.links, NamedLinks)
        /\ RootFromSurvivors

\* a document with a duplicate material, link and joint: the later base,
\* without visuals, stands first in model.links, and arm, the child of the
\* overwritten j1, is the root
C28_Witness ==
    /\ phase = "parsed"
    /\ Len(model.materials) < Len(doc.materials)
    /\ Len(model.links) < Len(doc.links)
    /\ Len(model.joints) < Len(doc.joints)
    /\ doc.links[1].visuals # <<>>
    /\ model.links[1].name = "base" /\ model.links[1].visuals = <<>>
    /\ doc.joints[1].name = "j1" /\ doc.joints[1].child = "arm"
    /\ model.joints[1].name = "j1" /\ model.joints[1].child = "base"
    /\ model.rootLink = <<"arm">>

----------------------------------------------------------------------------
(* C29: in every state of a built tree each joint node's local transform   *)
(* is the one its own stored jointValue determines: origin * axisRotation  *)
(* at origin.xyz for revolute and continuous, origin.xyz + jointValue *    *)
(* axis with the origin orientation for prismatic, the origin pose for     *)
(* every other type; and the stored jointValue is the last requested value *)
(* after clamping, for every joint type, fixed included.                   *)

Max(a, b) == IF a >= b THEN a ELSE b
Min(a, b) == IF a <= b THEN a ELSE b

\* v raised to the declared lower bound, then lowered to the declared upper bound
ClampOf(n, v) ==
    LET raised == IF HasLower(n) THEN Max(v, Lower(n)) ELSE v
    IN  IF HasUpper(n) THEN Min(raised, Upper(n)) ELSE raised

\* the local transform the stored value of joint node n determines
TransformOfValue(n) ==
    LET origin == nodes[n].data.origin
        value == nodes[n].jointValue
    IN  IF TypeOf(n) \in Turning
        THEN [position |-> origin.xyz,
              quaternion |-> MatMul(OriginRotation(origin),
                                    setFromAxisAngle(nodes[n].axis, value))]
        ELSE IF TypeOf(n) = "prismatic"
        THEN [position |-> VecAdd(origin.xyz, VecScale(nodes[n].axis, value)),
              quaternion |-> OriginRotation(origin)]
        ELSE [position |-> origin.xyz, quaternion |-> OriginRotation(origin)]

\* C29: every joint node is posed as its stored value says, and its stored value is the clamped last request, or zero when none was made
C29_TransformFollowsStoredValue ==
    phase \in {"building", "built"} =>
        \A n \in JointNodes :
            /\ nodes[n].position = TransformOfValue(n).position
            /\ ComposedTwice(n) = MatScale(TransformOfValue(n).quaternion, 2)
            /\ nodes[n].jointValue =
                   IF requests[n].last = <<>> THEN 0 ELSE ClampOf(n, requests[n].last[1])

----------------------------------------------------------------------------
(* C30: build tolerates dangling link references without error: when a     *)
(* joint's parent or child names a link absent from model.links, build     *)
(* completes, the keys of tree.links and tree.joints are keys of the       *)
(* model's maps, every registered joint has its parent link registered, a  *)
(* joint whose child link is missing still gets a joint node with no link  *)
(* node beneath it, and a joint whose parent link is missing or            *)
(* unreachable from the root gets no node.                                 *)

Missing(name) == name \notin Keys(model.links)

\* some joint names a parent or a child the model has no link for
HasDangling ==
    \E j \in 1..Len(model.joints) :
        Missing(model.joints[j].parent) \/ Missing(model.joints[j].child)

\* what holds of the tree at every moment of the build and after it
DanglingTolerated ==
    /\ DOMAIN robot.links \subseteq Keys(model.links)
    /\ DOMAIN robot.joints \subseteq Keys(model.joints)
    /\ \A n \in JointNodes :
           /\ nodes[n].parent \in LinkNodes
           /\ nodes[nodes[n].parent].name = nodes[n].data.parent
           /\ nodes[n].data.parent \in DOMAIN robot.links

\* what holds of the finished tree, joint by joint
DanglingJointsPlaced ==
    \A j \in 1..Len(model.joints) :
        LET jd == model.joints[j]
        IN  /\ (Missing(jd.child) /\ jd.parent \in DOMAIN robot.links) =>
                   /\ jd.name \in DOMAIN robot.joints
                   /\ robot.joints[jd.name] \in JointNodesOf(jd.name)
                   /\ \A n \in JointNodesOf(jd.name), k \in 1..Len(nodes) : nodes[k].parent # n
            /\ (Missing(jd.parent) \/ jd.parent \notin ReachableLinks) =>
                   /\ jd.name \notin DOMAIN robot.joints
                   /\ JointNodesOf(jd.name) = {}

\* C30: with a dangling reference in the model, build raises no error and does not exhaust the stack, the maps name only model links and joints, every joint node hangs under its registered parent link, and the finished tree has the childless joint nodes and lacks the parentless ones
C30_DanglingReferencesTolerated ==
    (phase \in {"building", "built", "overflow"} /\ HasDangling) =>
        /\ error = "none" /\ phase # "overflow"
        /\ DanglingTolerated
        /\ Built => DanglingJointsPlaced

====
